---- MODULE Spec2Model ----
(***************************************************************************)
(* Output-management pipeline of the CrewAI implementation:                *)
(*   src/src/core/output_management/structured_output.py                   *)
(*   src/src/core/output_management/output_processor.py                    *)
(*   src/src/core/output_management/output_validator.py                    *)
(*   src/src/core/output_management/result_aggregator.py                   *)
(*                                                                         *)
(* Python values are modelled as follows.                                  *)
(*  - Optional numbers and optional objects: None is <<>>, a present value *)
(*    v is <<v>>.                                                          *)
(*  - Opaque strings (ids, roles) are string tokens; the token PyNone is   *)
(*    Python's None and NotAStr is a value that is not a str (an int).     *)
(*  - Fractions in [0,1] (confidence) are counted in tenths; a validation  *)
(*    score is the pair <<numerator, denominator>>.                        *)
(*  - A Python call that may raise yields [exc, val]: exc is the message   *)
(*    of the exception ("" when the call returns) and val the value.       *)
(***************************************************************************)
EXTENDS Integers, Sequences, FiniteSets, TLC

\* ------------------------------------------------------------------ bounds
MaxWords == 3
MaxSources == 2
MaxItems == 2
MaxRules == 2
MaxOutputs == 3
MaxListed == 2
MaxAccesses == 2
MaxRuns == 2
MaxStarts == 3

\* ------------------------------------------------------- Python primitives
None == <<>>
Some(v) == <<v>>
Val(x) == x[1]
\* `if x:` for an Optional number
Truthy(x) == x # None /\ Val(x) # 0
\* `x or 0`
OrZero(x) == IF Truthy(x) THEN Val(x) ELSE 0

PyNone == "None"
NotAStr == "<int>"
IsStr(v) == v \notin {PyNone, NotAStr}
IsOptStr(v) == v # NotAStr

NoExc == ""
Ok(v) == [exc |-> NoExc, val |-> v]
Raise(e) == [exc |-> e, val |-> <<>>]

\* float('nan') among the confidence values (tenths otherwise)
NaN == -1

EmptyMap == <<>>
\* a list and a dict given by comprehension, as the values they denote
List(f) == f \o <<>>
Dict(f) == f @@ <<>>
Put(f, k, v) == [x \in (DOMAIN f) \cup {k} |-> IF x = k THEN v ELSE f[x]]

Min2(a, b) == IF a < b THEN a ELSE b
Max2(a, b) == IF a > b THEN a ELSE b

\* ------------------------------------------------------------ enumerations
\* class OutputType
OutputType == {"text", "json", "markdown", "html", "csv", "xml", "yaml"}
\* class OutputStatus
OutputStatus == {"success", "partial", "failed", "pending"}

\* ------------------------------------------------------------- data model
\* OutputMetadata(...): pydantic checks the field types at construction.
OutputMetadata(agent_id, agent_role, task_id, task_name, workflow_id, execution_time, word_count, source_count, confidence_score) ==
    IF ~IsStr(agent_id) THEN Raise("ValidationError: agent_id")
    ELSE IF ~IsStr(agent_role) THEN Raise("ValidationError: agent_role")
    ELSE IF ~IsOptStr(task_id) THEN Raise("ValidationError: task_id")
    ELSE IF ~IsOptStr(task_name) THEN Raise("ValidationError: task_name")
    ELSE IF ~IsOptStr(workflow_id) THEN Raise("ValidationError: workflow_id")
    ELSE IF confidence_score # None
            /\ ~(Val(confidence_score) >= 0 /\ Val(confidence_score) <= 10)
         THEN Raise("ValidationError: confidence_score")
    ELSE Ok([agent_id |-> agent_id, agent_role |-> agent_role,
             task_id |-> task_id, task_name |-> task_name,
             workflow_id |-> workflow_id, execution_time |-> execution_time,
             word_count |-> word_count, source_count |-> source_count,
             confidence_score |-> confidence_score])

\* OutputValidation(...): validation_score must lie in [0,1].
OutputValidation(is_valid, validation_score, errors, warnings, requirements_met) ==
    IF ~(validation_score[2] > 0 /\ validation_score[1] >= 0
         /\ validation_score[1] <= validation_score[2])
    THEN Raise("ValidationError: validation_score")
    ELSE Ok([is_valid |-> is_valid, validation_score |-> validation_score,
             errors |-> errors, warnings |-> warnings,
             requirements_met |-> requirements_met])

\* StructuredOutput(...): content must be a str, a dict or a list.
StructuredOutput(content, output_type, status, metadata, validation, sections, tags, keywords, processing_notes, error_details) ==
    IF content.kind \notin {"str", "dict", "list"}
    THEN Raise("ValidationError: content")
    ELSE Ok([content |-> content, output_type |-> output_type, status |-> status,
             metadata |-> metadata, validation |-> validation,
             sections |-> sections, tags |-> tags, keywords |-> keywords,
             processing_notes |-> processing_notes,
             error_details |-> error_details])

\* A placeholder held where a call raised and returned no output.
NoMetadata ==
    [agent_id |-> PyNone, agent_role |-> PyNone, task_id |-> PyNone,
     task_name |-> PyNone, workflow_id |-> PyNone, execution_time |-> None,
     word_count |-> None, source_count |-> None, confidence_score |-> None]
\* A raw input in which the parsers find nothing (see OutputProcessor below).
BaseRaw ==
    [cls |-> "str", json |-> "error", yaml |-> "none", md |-> FALSE,
     html |-> FALSE, csv |-> FALSE, words |-> 2, cites |-> 0,
     srcField |-> "absent", srcLen |-> 0, conf |-> None, secs |-> {},
     tags |-> {}, kws |-> {}, tagsBad |-> FALSE, kwBad |-> FALSE,
     blank |-> FALSE, chars |-> 20, actual |-> 2, vmd |-> FALSE,
     suspicious |-> FALSE, artifacts |-> FALSE, innerJson |-> FALSE,
     serializable |-> TRUE, mdStructure |-> TRUE]
NoOutput ==
    [content |-> [kind |-> "str", via |-> "none", raw |-> BaseRaw],
     output_type |-> "text", status |-> "pending", metadata |-> NoMetadata,
     validation |-> None, sections |-> None, tags |-> {}, keywords |-> {},
     processing_notes |-> <<>>, error_details |-> None]

\* --------------------------------------------------------- OutputSchema
\* A schema is None (no schema given) or <<s>> with s a record of the
\* fields validate_output reads.
SectionKey(section) == "section_" \o section

\* lines 195-200: the loop over the required sections (a list); each missing
\* one adds an error, and each is recorded under its key
check_required_sections(required_sections, sections, s) ==
    LET Missing(section) == section \notin DOMAIN sections
        missing == SelectSeq(required_sections, Missing)
        keys == {SectionKey(required_sections[i]) : i \in DOMAIN required_sections}
    IN [errors |-> s.errors \o [i \in DOMAIN missing |->
                                  "Required section missing: " \o missing[i]],
        warnings |-> s.warnings,
        req |-> [k \in (DOMAIN s.req) \cup keys |->
                    IF k \in keys
                    THEN \E i \in DOMAIN required_sections :
                            /\ k = SectionKey(required_sections[i])
                            /\ ~Missing(required_sections[i])
                    ELSE s.req[k]]]

\* lines 203-205: met / total, and 1.0 when there is no requirement
schema_score(req) ==
    IF Cardinality(DOMAIN req) > 0
    THEN <<Cardinality({k \in DOMAIN req : req[k]}), Cardinality(DOMAIN req)>>
    ELSE <<1, 1>>

\* One requirement of validate_output: when it applies (its threshold and the
\* output's value are both truthy) it is recorded as met or failed, and a
\* failure adds its message to the errors or to the warnings.
record_requirement(s, applies, failed, name, message, is_error) ==
    IF ~applies THEN s
    ELSE IF failed
    THEN [errors |-> IF is_error THEN Append(s.errors, message) ELSE s.errors,
          warnings |-> IF is_error THEN s.warnings ELSE Append(s.warnings, message),
          req |-> Put(s.req, name, FALSE)]
    ELSE [errors |-> s.errors, warnings |-> s.warnings, req |-> Put(s.req, name, TRUE)]

\* lines 163-168
check_min_word_count(s, schema, wc) ==
    record_requirement(s, Truthy(schema.min_word_count) /\ Truthy(wc),
        Val(wc) < Val(schema.min_word_count),
        "min_word_count", "Word count below minimum", TRUE)

\* lines 170-175
check_max_word_count(s, schema, wc) ==
    record_requirement(s, Truthy(schema.max_word_count) /\ Truthy(wc),
        Val(wc) > Val(schema.max_word_count),
        "max_word_count", "Word count exceeds maximum", FALSE)

\* lines 178-183
check_min_confidence(s, schema, cs) ==
    record_requirement(s, Truthy(cs), Val(cs) < schema.min_confidence,
        "min_confidence", "Confidence score below minimum", FALSE)

\* lines 186-191
check_required_sources(s, schema, sc) ==
    record_requirement(s, Truthy(schema.required_sources) /\ Truthy(sc),
        Val(sc) < Val(schema.required_sources),
        "required_sources", "Source count below required", TRUE)

\* lines 194-200
check_sections(s, schema, sections) ==
    IF schema.required_sections # <<>> /\ sections # None /\ DOMAIN Val(sections) # {}
    THEN check_required_sections(schema.required_sections, Val(sections), s)
    ELSE s

\* lines 203-216
schema_verdict(s) ==
    OutputValidation(Len(s.errors) = 0, schema_score(s.req),
                     s.errors, s.warnings, Dict(s.req))

\* OutputSchema.validate_output
schema_validate_output(schema, output) ==
    schema_verdict(
      check_sections(
        check_required_sources(
          check_min_confidence(
            check_max_word_count(
              check_min_word_count(
                [errors |-> <<>>, warnings |-> <<>>, req |-> EmptyMap],
                schema, output.metadata.word_count),
              schema, output.metadata.word_count),
            schema, output.metadata.confidence_score),
          schema, output.metadata.source_count),
        schema, output.sections))

\* ------------------------------------------------------ OutputProcessor
\* A raw input is a record of what the processor's parsers and regular
\* expressions find in it:
\*   cls      its Python class: "str", "dict", "list" or "other";
\*   json     what json.loads gives for a str: "error" (JSONDecodeError), a
\*            "dict", a "list", a "scalar" (number, boolean, null), a "str",
\*            or "deep" (nesting past the recursion limit: RecursionError);
\*   yaml     what yaml.safe_load gives: a "dict", a "list", or "none"
\*            (anything else, or a YAMLError);
\*   md, html, csv   whether _is_markdown, _is_html, _is_csv match;
\* and, for the content that type detection extracts from it,
\*   words    the words _calculate_word_count counts;
\*   cites    the distinct citation matches of _count_sources (summed over
\*            the string values of a dict);
\*   srcField the 'sources' entry of a dict: "absent", a "list" or a "str",
\*            and srcLen its length (list) or its number of newlines (str);
\*   conf     the confidence value found (tenths, NaN, or None);
\*   secs     the names of the sections its headings or keys delimit;
\*   tags, kws     the cleaned tags and keywords found;
\*   tagsBad, kwBad  a dict's 'tags' / 'keywords' list holds a non-str;
\* and, for the text str(content) that the validator's rules read,
\*   blank    it is empty after strip();
\*   chars    its length;
\*   actual   len(str(content).split());
\*   vmd      one of the validator's four markdown patterns matches;
\*   suspicious, artifacts   a suspicious pattern / an encoding artifact is found;
\*   innerJson     json.loads(str(content)) succeeds;
\*   serializable  json.dumps(content) succeeds (dict or list content);
\*   mdStructure   the bold markers are balanced and the headers well formed.

\* str(raw_output)
Str(raw) ==
    [kind |-> "str", via |-> IF raw.cls = "str" THEN "asis" ELSE "str", raw |-> raw]

Content(kind, via, raw) == [kind |-> kind, via |-> via, raw |-> raw]

\* _determine_output_type with the HTML test ahead of the Markdown test
determine_output_type_html_first(raw) ==
    IF raw.cls = "dict" THEN Ok(<<"json", Content("dict", "asis", raw)>>)
    ELSE IF raw.cls = "list" THEN Ok(<<"json", Content("list", "asis", raw)>>)
    ELSE IF raw.cls = "str" THEN
        IF raw.json = "deep" THEN Raise("RecursionError: maximum recursion depth exceeded")
        ELSE IF raw.json # "error" THEN Ok(<<"json", Content(raw.json, "json", raw)>>)
        ELSE IF raw.yaml \in {"dict", "list"} THEN Ok(<<"yaml", Content(raw.yaml, "yaml", raw)>>)
        ELSE IF raw.html THEN Ok(<<"html", Content("str", "asis", raw)>>)
        ELSE IF raw.md THEN Ok(<<"markdown", Content("str", "asis", raw)>>)
        ELSE IF raw.csv THEN Ok(<<"csv", Content("str", "asis", raw)>>)
        ELSE Ok(<<"text", Content("str", "asis", raw)>>)
    ELSE Ok(<<"text", Str(raw)>>)

\* OutputProcessor._determine_output_type: <<output_type, content>>
determine_output_type(raw) ==
    IF raw.cls = "dict" THEN Ok(<<"json", Content("dict", "asis", raw)>>)
    ELSE IF raw.cls = "list" THEN Ok(<<"json", Content("list", "asis", raw)>>)
    ELSE IF raw.cls = "str" THEN
        IF raw.json = "deep" THEN Raise("RecursionError: maximum recursion depth exceeded")
        ELSE IF raw.json # "error" THEN Ok(<<"json", Content(raw.json, "json", raw)>>)
        ELSE IF raw.yaml \in {"dict", "list"} THEN Ok(<<"yaml", Content(raw.yaml, "yaml", raw)>>)
        ELSE IF raw.md THEN Ok(<<"markdown", Content("str", "asis", raw)>>)
        ELSE IF raw.html THEN Ok(<<"html", Content("str", "asis", raw)>>)
        ELSE IF raw.csv THEN Ok(<<"csv", Content("str", "asis", raw)>>)
        ELSE Ok(<<"text", Content("str", "asis", raw)>>)
    ELSE Ok(<<"text", Str(raw)>>)

\* OutputProcessor._calculate_word_count
calculate_word_count(content) ==
    IF content.kind \in {"str", "dict", "list"} THEN content.raw.words ELSE 0

\* OutputProcessor._count_sources
count_sources(content) ==
    IF content.kind = "str"
    THEN IF content.raw.cites > 0 THEN Some(content.raw.cites) ELSE None
    ELSE IF content.kind = "dict"
    THEN IF content.raw.srcField = "list" THEN Some(content.raw.srcLen)
         ELSE IF content.raw.srcField = "str" THEN Some(content.raw.srcLen + 1)
         ELSE IF content.raw.cites > 0 THEN Some(content.raw.cites) ELSE None
    ELSE None

\* min(max(value, 0.0), 1.0); both comparisons with nan are false
Clamp(v) == IF v = NaN THEN NaN ELSE Min2(Max2(v, 0), 10)

\* OutputProcessor._extract_confidence_score
extract_confidence_score(content) ==
    IF content.kind \in {"dict", "str"} /\ content.raw.conf # None
    THEN Some(Clamp(Val(content.raw.conf)))
    ELSE None

\* OutputProcessor._extract_metadata
extract_metadata(content, agent_id, agent_role, task_id, task_name, workflow_id, execution_time) ==
    OutputMetadata(agent_id, agent_role, task_id, task_name, workflow_id,
                   execution_time, Some(calculate_word_count(content)),
                   count_sources(content), extract_confidence_score(content))

SectionMap(names) == [n \in names |-> "text of " \o n]

\* OutputProcessor._organize_content_sections
organize_content_sections(content, output_type) ==
    IF output_type = "markdown" /\ content.kind = "str"
    THEN Some(SectionMap(content.raw.secs))
    ELSE IF output_type = "json" /\ content.kind = "dict"
    THEN Some(SectionMap(content.raw.secs))
    ELSE IF content.kind = "str" THEN Some(SectionMap(content.raw.secs))
    ELSE None

\* cleaned[:n]: the list of a set keeps an arbitrary n of its members
Cap(S, n) ==
    IF Cardinality(S) <= n THEN S
    ELSE CHOOSE T \in SUBSET S : Cardinality(T) = n

\* OutputProcessor._extract_tags
extract_tags(content) ==
    IF content.kind = "dict"
    THEN IF content.raw.tagsBad
         THEN Raise("AttributeError: 'int' object has no attribute 'strip'")
         ELSE Ok(Cap(content.raw.tags, 10))
    ELSE IF content.kind = "str" THEN Ok(Cap(content.raw.tags, 10))
    ELSE Ok({})

\* OutputProcessor._extract_keywords
extract_keywords(content) ==
    IF content.kind = "dict"
    THEN IF content.raw.kwBad
         THEN Raise("AttributeError: 'int' object has no attribute 'strip'")
         ELSE Ok(Cap(content.raw.kws, 15))
    ELSE IF content.kind = "str" THEN Ok(Cap(content.raw.kws, 15))
    ELSE Ok({})

ValidationNote(validation) == <<"Validation failed with errors", Len(validation.errors)>>

\* attach_validation without the downgrade of lines 97-101
attach_validation_kept_success(structured_output, validation) ==
    IF validation.exc # NoExc THEN Raise(validation.exc)
    ELSE Ok([structured_output EXCEPT !.validation = Some(validation.val)])

\* lines 94-101: attach the verdict; when it is invalid mark the output
\* partial and add one note
attach_validation(structured_output, validation) ==
    IF validation.exc # NoExc THEN Raise(validation.exc)
    ELSE IF ~validation.val.is_valid
    THEN Ok([structured_output EXCEPT
               !.validation = Some(validation.val),
               !.status = "partial",
               !.processing_notes = Append(@, ValidationNote(validation.val))])
    ELSE Ok([structured_output EXCEPT !.validation = Some(validation.val)])

\* lines 92-101: validate against the schema, if one is given
apply_schema(structured_output, schema) ==
    IF schema # None
    THEN attach_validation(structured_output,
                           schema_validate_output(Val(schema), structured_output))
    ELSE Ok(structured_output)

\* lines 81-101: the StructuredOutput is built, then validated
try_validate(structured_output, schema) ==
    IF structured_output.exc # NoExc THEN Raise(structured_output.exc)
    ELSE apply_schema(structured_output.val, schema)

\* lines 74-89: tags, keywords, then the StructuredOutput
try_build(output_type, content, metadata, sections, tags, keywords, schema) ==
    IF tags.exc # NoExc THEN Raise(tags.exc)
    ELSE IF keywords.exc # NoExc THEN Raise(keywords.exc)
    ELSE try_validate(
           StructuredOutput(content, output_type, "success", metadata, None,
                            sections, tags.val, keywords.val, <<>>, None),
           schema)

\* lines 67-76: metadata, then sections, tags and keywords
try_extract(output_type, content, metadata, schema) ==
    IF metadata.exc # NoExc THEN Raise(metadata.exc)
    ELSE try_build(output_type, content, metadata.val,
                   organize_content_sections(content, output_type),
                   extract_tags(content), extract_keywords(content), schema)

\* lines 64-71: type detection, then metadata
try_detect(det, agent_id, agent_role, task_id, task_name, workflow_id, execution_time, schema) ==
    IF det.exc # NoExc THEN Raise(det.exc)
    ELSE try_extract(det.val[1], det.val[2],
                     extract_metadata(det.val[2], agent_id, agent_role, task_id,
                                      task_name, workflow_id, execution_time),
                     schema)

\* lines 63-104: the body of the try block of process_agent_output
process_try(raw_output, agent_id, agent_role, task_id, task_name, workflow_id, execution_time, schema) ==
    try_detect(determine_output_type(raw_output), agent_id, agent_role, task_id,
               task_name, workflow_id, execution_time, schema)

\* lines 110-123: the failed output built from the error metadata
error_output(raw_output, metadata, e) ==
    IF metadata.exc # NoExc THEN Raise(metadata.exc)
    ELSE StructuredOutput(Str(raw_output), "text", "failed", metadata.val,
                          None, None, {}, {}, <<>>, Some(e))

\* lines 106-123: the except block of process_agent_output
process_except(raw_output, agent_id, agent_role, task_id, task_name, workflow_id, execution_time, e) ==
    error_output(raw_output,
                 OutputMetadata(agent_id, agent_role, task_id, task_name,
                                workflow_id, execution_time, None, None, None),
                 e)

\* try / except: what the try block returned, or what the handler does
try_except(body, raw_output, agent_id, agent_role, task_id, task_name, workflow_id, execution_time) ==
    IF body.exc = NoExc THEN body
    ELSE process_except(raw_output, agent_id, agent_role, task_id,
                        task_name, workflow_id, execution_time, body.exc)

\* OutputProcessor.process_agent_output
process_agent_output(raw_output, agent_id, agent_role, task_id, task_name, workflow_id, execution_time, schema) ==
    try_except(process_try(raw_output, agent_id, agent_role, task_id,
                           task_name, workflow_id, execution_time, schema),
               raw_output, agent_id, agent_role, task_id, task_name,
               workflow_id, execution_time)

\* ------------------------------------------------------ OutputValidator
\* A ValidationRule is [name, error_message, warning_only, weight, func]:
\* weight counts halves (2 is 1.0); func names the predicate: a built-in one,
\* computed from the output, or what a custom predicate does on the output
\* held: "returns_true", "returns_false" or "raises".
ValidationRule(name, validator_func, error_message, warning_only, weight) ==
    [name |-> name, error_message |-> error_message,
     warning_only |-> warning_only, weight |-> weight, func |-> validator_func]

\* lines 229, 238, 248, 257-261: the lambdas of the first four built-in rules
content_exists(output) == ~output.content.raw.blank
minimum_content_length(output) == output.content.raw.chars >= 10
status_consistency(output) ==
    ~(output.status = "success" /\ output.error_details # None
      /\ Val(output.error_details) # "")
metadata_completeness(output) ==
    output.metadata.agent_id # "" /\ output.metadata.agent_role # ""

\* OutputValidator._validate_content_type_consistency
validate_content_type_consistency(output) ==
    IF output.output_type = "json"
    THEN output.content.kind \in {"dict", "list"} \/ output.content.raw.innerJson
    ELSE IF output.output_type = "markdown" THEN output.content.raw.vmd
    ELSE IF output.output_type = "html" THEN output.content.raw.html
    ELSE IF output.output_type = "csv" THEN output.content.raw.csv
    ELSE TRUE

\* abs(actual_words - reported_words)
AbsDiff(a, b) == IF a > b THEN a - b ELSE b - a

\* OutputValidator._validate_word_count_accuracy: variance <= 0.1
validate_word_count_accuracy(output) ==
    IF ~Truthy(output.metadata.word_count) THEN TRUE
    ELSE 10 * AbsDiff(output.content.raw.actual, Val(output.metadata.word_count))
            <= Max2(output.content.raw.actual, 1)

\* OutputValidator._validate_no_suspicious_content
validate_no_suspicious_content(output) == ~output.content.raw.suspicious

\* OutputValidator._validate_proper_encoding
validate_proper_encoding(output) == ~output.content.raw.artifacts

\* OutputValidator._validate_json_validity
validate_json_validity(output) ==
    IF output.output_type # "json" THEN TRUE
    ELSE IF output.content.kind \in {"dict", "list"}
    THEN output.content.raw.serializable
    ELSE output.content.raw.innerJson

\* OutputValidator._validate_markdown_structure
validate_markdown_structure(output) ==
    IF output.output_type # "markdown" THEN TRUE
    ELSE output.content.raw.mdStructure

\* OutputValidator._create_built_in_rules
built_in_rules ==
    <<ValidationRule("content_exists", "content_exists",
                     "Output has no content or empty content", FALSE, 4),
      ValidationRule("minimum_content_length", "minimum_content_length",
                     "Content is too short (less than 10 characters)", TRUE, 2),
      ValidationRule("status_consistency", "status_consistency",
                     "Status is SUCCESS but error details are present", FALSE, 3),
      ValidationRule("metadata_completeness", "metadata_completeness",
                     "Missing essential metadata fields", FALSE, 3),
      ValidationRule("content_type_consistency", "content_type_consistency",
                     "Content does not match declared output type", TRUE, 2),
      ValidationRule("word_count_accuracy", "word_count_accuracy",
                     "Word count metadata significantly differs from actual content",
                     TRUE, 1),
      ValidationRule("no_suspicious_content", "no_suspicious_content",
                     "Content contains suspicious patterns", FALSE, 4),
      ValidationRule("proper_encoding", "proper_encoding",
                     "Content has encoding issues", FALSE, 2),
      ValidationRule("json_validity", "json_validity",
                     "JSON content is not valid JSON", FALSE, 4),
      ValidationRule("markdown_structure", "markdown_structure",
                     "Markdown content has structural issues", TRUE, 1)>>

\* self.validator_func(output): [exc, val]
validator_func(rule, output) ==
    CASE rule.func = "content_exists" -> Ok(content_exists(output))
      [] rule.func = "minimum_content_length" -> Ok(minimum_content_length(output))
      [] rule.func = "status_consistency" -> Ok(status_consistency(output))
      [] rule.func = "metadata_completeness" -> Ok(metadata_completeness(output))
      [] rule.func = "content_type_consistency" ->
            Ok(validate_content_type_consistency(output))
      [] rule.func = "word_count_accuracy" -> Ok(validate_word_count_accuracy(output))
      [] rule.func = "no_suspicious_content" ->
            Ok(validate_no_suspicious_content(output))
      [] rule.func = "proper_encoding" -> Ok(validate_proper_encoding(output))
      [] rule.func = "json_validity" -> Ok(validate_json_validity(output))
      [] rule.func = "markdown_structure" -> Ok(validate_markdown_structure(output))
      [] rule.func = "returns_true" -> Ok(TRUE)
      [] rule.func = "returns_false" -> Ok(FALSE)
      [] OTHER -> Raise("predicate failed")

\* lines 48-52: what validate returns for what the predicate did
rule_verdict(rule, r) ==
    IF r.exc # NoExc
    THEN [rule |-> rule, is_valid |-> FALSE,
          message |-> "Validation error in " \o rule.name \o ": " \o r.exc]
    ELSE IF r.val THEN [rule |-> rule, is_valid |-> TRUE, message |-> ""]
    ELSE [rule |-> rule, is_valid |-> FALSE, message |-> rule.error_message]

\* ValidationRule.validate
rule_validate(rule, output) == rule_verdict(rule, validator_func(rule, output))

\* is_error with strict_mode ignored
is_error_ignoring_strict(rule, strict_mode) == ~rule.warning_only

\* lines 100, 113: a failure is an error unless the rule is warning_only and
\* strict_mode is off
is_error(rule, strict_mode) == ~(rule.warning_only /\ ~strict_mode)

\* lines 101, 103: f"{rule.name}: {message}"
rule_message(e) == e.rule.name \o ": " \o e.message

\* the messages a loop over rules appends to errors (to_errors) or to warnings
rule_messages(evals, strict_mode, to_errors) ==
    LET Goes(e) == ~e.is_valid /\ (is_error(e.rule, strict_mode) = to_errors)
        failing == SelectSeq(evals, Goes)
    IN [i \in DOMAIN failing |-> rule_message(failing[i])]

\* the last evaluation of a rule called name
last_named(evals, name) ==
    evals[CHOOSE i \in DOMAIN evals :
            /\ evals[i].rule.name = name
            /\ \A j \in DOMAIN evals : evals[j].rule.name = name => j <= i]

\* lines 104, 106: requirements_met[rule.name] is assigned at each evaluation
record_rules(requirements_met, evals) ==
    Dict([n \in (DOMAIN requirements_met) \cup {evals[i].rule.name : i \in DOMAIN evals} |->
            IF \E i \in DOMAIN evals : evals[i].rule.name = n
            THEN last_named(evals, n).is_valid
            ELSE requirements_met[n]])

\* lines 97-106 and 110-119: one loop over a list of rules
apply_rules(acc, evals, strict_mode) ==
    [errors |-> acc.errors \o rule_messages(evals, strict_mode, TRUE),
     warnings |-> acc.warnings \o rule_messages(evals, strict_mode, FALSE),
     req |-> record_rules(acc.req, evals)]

run_rules(acc, rules, output, strict_mode) ==
    apply_rules(acc, List([i \in DOMAIN rules |-> rule_validate(rules[i], output)]),
                strict_mode)

\* lines 90-94: the schema's errors, warnings and requirements come first
extend_with(schema_validation) ==
    [errors |-> schema_validation.errors, warnings |-> schema_validation.warnings,
     req |-> schema_validation.requirements_met]

schema_part(schema, output) ==
    IF schema # None
    THEN extend_with(schema_validate_output(Val(schema), output).val)
    ELSE [errors |-> <<>>, warnings |-> <<>>, req |-> EmptyMap]

\* line 109: custom_rules or self.custom_rules (None and [] are both falsy)
rules_to_check(custom_rules, self_custom_rules) ==
    IF custom_rules # None /\ Val(custom_rules) # <<>>
    THEN Val(custom_rules)
    ELSE self_custom_rules

\* lines 130-134: the weight of the first rule of that name, 1.0 if none
rule_weight(rule_name, rules) ==
    IF \E i \in DOMAIN rules : rules[i].name = rule_name
    THEN rules[CHOOSE i \in DOMAIN rules :
                 /\ rules[i].name = rule_name
                 /\ \A j \in 1..(i - 1) : rules[j].name # rule_name].weight
    ELSE 2

RECURSIVE sum_weights(_, _)
RECURSIVE add_weight(_, _, _)
\* lines 128-138: the sum of the weights of the names in todo
sum_weights(todo, rules) ==
    IF todo = {} THEN 0 ELSE add_weight(CHOOSE n \in todo : TRUE, todo, rules)

add_weight(rule_name, todo, rules) ==
    rule_weight(rule_name, rules) + sum_weights(todo \ {rule_name}, rules)

\* line 140: weighted_score / total_weight if total_weight > 0 else 0.0
score_fraction(weighted, total_weight) ==
    IF total_weight > 0 THEN <<weighted, total_weight>> ELSE <<0, 1>>

\* lines 122-142: <<weighted_score, total_weight>>
weighted_score(requirements_met, rules) ==
    IF DOMAIN requirements_met = {} THEN <<1, 1>>
    ELSE score_fraction(
           sum_weights({n \in DOMAIN requirements_met : requirements_met[n]}, rules),
           sum_weights(DOMAIN requirements_met, rules))

\* lines 121-153
rules_verdict(acc, rules) ==
    OutputValidation(Len(acc.errors) = 0, weighted_score(acc.req, rules),
                     acc.errors, acc.warnings, acc.req)

\* lines 85-153 once rules_to_check is known
validate_with(self_built_in_rules, checked, output, schema, strict_mode) ==
    rules_verdict(
      run_rules(run_rules(schema_part(schema, output), self_built_in_rules,
                          output, strict_mode),
                checked, output, strict_mode),
      self_built_in_rules \o checked)

\* OutputValidator.validate_output
validate_output(self_custom_rules, output, schema, custom_rules, strict_mode) ==
    validate_with(built_in_rules, rules_to_check(custom_rules, self_custom_rules),
                  output, schema, strict_mode)

\* validate_output taken to attach the verdict it returns
attaching_verdict(output, r) ==
    IF r.exc = NoExc THEN [output EXCEPT !.validation = Some(r.val)] ELSE output

\* the output given to validate_output, after the call: no line of
\* validate_output assigns to it
output_after_validate(output, r) == output

\* OutputValidator.add_custom_rule
add_custom_rule(self_custom_rules, rule) == Append(self_custom_rules, rule)

\* OutputValidator.remove_custom_rule: [rules, found]
remove_custom_rule(self_custom_rules, rule_name) ==
    IF \E i \in DOMAIN self_custom_rules : self_custom_rules[i].name = rule_name
    THEN [rules |->
            [k \in 1..(Len(self_custom_rules) - 1) |->
                IF \A j \in 1..k : self_custom_rules[j].name # rule_name
                THEN self_custom_rules[k] ELSE self_custom_rules[k + 1]],
          found |-> TRUE]
    ELSE [rules |-> self_custom_rules, found |-> FALSE]

\* ------------------------------------------------------ ResultAggregator
RECURSIVE sum(_)
\* sum(...) over a list of numbers
sum(values) == IF values = <<>> THEN 0 ELSE Head(values) + sum(Tail(values))

\* agent_name.lower().replace(' ', '_'), on the role names of the inputs
lower_underscored(agent_name) ==
    CASE agent_name = "Researcher" -> "researcher"
      [] agent_name = "Content Writer" -> "content_writer"
      [] OTHER -> agent_name

\* line 284: f"{agent_name.lower().replace(' ', '_')}_{section_name}"
prefixed_section(agent_name, section_name) ==
    lower_underscored(agent_name) \o "_" \o section_name

\* lines 282-286: the sections of one output go into merged_sections under
\* their prefixed names, replacing what is there
add_sections(agent_name, sections, merged_sections) ==
    Dict([k \in (DOMAIN merged_sections)
                  \cup {prefixed_section(agent_name, n) : n \in DOMAIN sections} |->
            IF \E n \in DOMAIN sections : prefixed_section(agent_name, n) = k
            THEN sections[CHOOSE n \in DOMAIN sections :
                            prefixed_section(agent_name, n) = k]
            ELSE merged_sections[k]])

RECURSIVE merge_sections(_, _, _)
\* lines 276-286: the loop over the outputs, from the i-th on
merge_sections(outputs, i, merged_sections) ==
    IF i > Len(outputs) THEN merged_sections
    ELSE merge_sections(outputs, i + 1,
            IF outputs[i].sections # None
            THEN add_sections(outputs[i].metadata.agent_role,
                              Val(outputs[i].sections), merged_sections)
            ELSE merged_sections)

\* lines 279, 304: one attributed part per output, joined
merged_content(outputs) ==
    [kind |-> "str", via |-> "merge",
     parts |-> List([i \in DOMAIN outputs |->
                       [agent_name |-> outputs[i].metadata.agent_role,
                        content |-> outputs[i].content]])]

\* the confidence scores that are truthy, in order
truthy_confidences(outputs) ==
    SelectSeq(List([i \in DOMAIN outputs |-> outputs[i].metadata.confidence_score]),
              Truthy)

\* mean([...]) of the truthy confidence scores if any, else None; the mean is
\* kept as the pair <<sum of the tenths, count>>
avg_confidence(outputs) ==
    IF truthy_confidences(outputs) = <<>> THEN None
    ELSE Some(<<sum(List([i \in DOMAIN truthy_confidences(outputs) |->
                            Val(truthy_confidences(outputs)[i])])),
                Len(truthy_confidences(outputs))>>)

total_words(outputs) ==
    sum(List([i \in DOMAIN outputs |-> OrZero(outputs[i].metadata.word_count)]))

total_execution_time(outputs) ==
    sum(List([i \in DOMAIN outputs |-> OrZero(outputs[i].metadata.execution_time)]))

total_source_count(outputs) ==
    sum(List([i \in DOMAIN outputs |-> OrZero(outputs[i].metadata.source_count)]))

\* line 297: status_priority.get(x.status, 0)
status_priority(status) ==
    CASE status = "failed" -> 0
      [] status = "partial" -> 1
      [] status = "success" -> 2
      [] OTHER -> 0

\* line 298: min(outputs, key=...).status, the first output of least priority
overall_status(outputs) ==
    outputs[CHOOSE i \in DOMAIN outputs :
              \A j \in DOMAIN outputs :
                  /\ status_priority(outputs[j].status) >= status_priority(outputs[i].status)
                  /\ j < i => status_priority(outputs[j].status)
                                > status_priority(outputs[i].status)].status

\* the metadata of the merged output: the mean of values in [0,1] passes the
\* constructor's range check
with_confidence(metadata, confidence_score) ==
    IF metadata.exc # NoExc THEN metadata
    ELSE Ok([metadata.val EXCEPT !.confidence_score = confidence_score])

\* a StructuredOutput(...) call whose metadata argument is itself a call
build_output(content, output_type, status, metadata, validation, sections, tags, keywords, processing_notes) ==
    IF metadata.exc # NoExc THEN Raise(metadata.exc)
    ELSE StructuredOutput(content, output_type, status, metadata.val, validation,
                          sections, tags, keywords, processing_notes, None)

\* ResultAggregator._merge_outputs
merge_outputs(outputs, agent_role) ==
    build_output(
        merged_content(outputs), "markdown", overall_status(outputs),
        with_confidence(
            OutputMetadata("consolidated", agent_role, PyNone, PyNone,
                           outputs[1].metadata.workflow_id,
                           Some(total_execution_time(outputs)),
                           Some(total_words(outputs)),
                           Some(total_source_count(outputs)), None),
            avg_confidence(outputs)),
        None, Some(merge_sections(outputs, 1, EmptyMap)),
        UNION {outputs[i].tags : i \in DOMAIN outputs},
        UNION {outputs[i].keywords : i \in DOMAIN outputs},
        <<<<"Consolidated from agent outputs", Len(outputs)>>>>)

\* line 333: the status mark of an output's line
status_emoji(status) ==
    IF status = "success" THEN "ok" ELSE IF status = "partial" THEN "warning" ELSE "cross"

\* the words of a role name
role_words(agent_role) == IF agent_role = "Content Writer" THEN 2 ELSE 1

\* the words of get_content_preview(100) for a text that fits the preview
preview_words(content) == content.raw.actual

KeySectionNames == {"summary", "findings", "conclusion", "recommendations"}

\* lines 338-343: key_sections, each name with the indexes of the outputs
\* that have it
key_sections(outputs) ==
    Dict([n \in {s \in KeySectionNames :
                   \E i \in DOMAIN outputs :
                       outputs[i].sections # None /\ s \in DOMAIN Val(outputs[i].sections)} |->
            SelectSeq(List([i \in DOMAIN outputs |-> i]),
                      LAMBDA i : outputs[i].sections # None
                                 /\ n \in DOMAIN Val(outputs[i].sections))])

\* the words of a section text of the inputs ("text of <name>")
SectionWords == 3

\* the words of the summary text: the fixed lines, one line per output, and
\* per key section a title and one line per output that has it
summary_word_count(outputs) ==
    29
    + sum(List([i \in DOMAIN outputs |->
                  2 + role_words(outputs[i].metadata.agent_role)
                    + preview_words(outputs[i].content)]))
    + sum(List([i \in DOMAIN outputs |->
                  IF outputs[i].sections = None THEN 0
                  ELSE Cardinality(KeySectionNames \cap DOMAIN Val(outputs[i].sections))
                       * (role_words(outputs[i].metadata.agent_role) + SectionWords)]))
    + 2 * Cardinality(DOMAIN key_sections(outputs))

\* lines 326-356: the lines of the summary
summary_content(outputs) ==
    [kind |-> "str", via |-> "summary",
     parts |-> List([i \in DOMAIN outputs |->
                       [status_emoji |-> status_emoji(outputs[i].status),
                        agent_name |-> outputs[i].metadata.agent_role,
                        content |-> outputs[i].content]]),
     key_sections |-> key_sections(outputs),
     total_words |-> total_words(outputs),
     avg_confidence |-> avg_confidence(outputs),
     successful |-> Cardinality({i \in DOMAIN outputs : outputs[i].status = "success"})]

\* ResultAggregator._summarize_outputs
summarize_outputs(outputs, agent_role) ==
    build_output(
        summary_content(outputs), "markdown", "success",
        OutputMetadata("summary", agent_role, PyNone, PyNone,
                       outputs[1].metadata.workflow_id, None,
                       Some(summary_word_count(outputs)),
                       Some(total_source_count(outputs)), None),
        None, None, {}, {},
        <<<<"Summary generated from agent outputs", Len(outputs)>>>>)

\* lines 376-403: score_output, as the fraction <<n, d>> of n thousandths
\* over d (d the denominator of the validation score, 1 without one)
score_output(output) ==
    <<(IF output.validation # None THEN Val(output.validation).validation_score[2] ELSE 1)
        * ((IF output.status = "success" THEN 3000
            ELSE IF output.status = "partial" THEN 1000 ELSE 0)
           + (IF Truthy(output.metadata.word_count)
              THEN Min2(Val(output.metadata.word_count), 2000) ELSE 0)
           + (IF Truthy(output.metadata.confidence_score)
              THEN 100 * Val(output.metadata.confidence_score) ELSE 0)
           + (IF output.sections # None
              THEN 100 * Cardinality(DOMAIN Val(output.sections)) ELSE 0))
      + (IF output.validation # None
         THEN 2000 * Val(output.validation).validation_score[1] ELSE 0),
      IF output.validation # None THEN Val(output.validation).validation_score[2] ELSE 1>>

\* a < b for two scores
score_less(a, b) == a[1] * b[2] < b[1] * a[2]

\* max(...) as if it kept the last of the outputs of greatest score
last_best_index(outputs) ==
    CHOOSE i \in DOMAIN outputs :
        \A j \in DOMAIN outputs :
            /\ ~score_less(score_output(outputs[i]), score_output(outputs[j]))
            /\ j > i => score_less(score_output(outputs[j]), score_output(outputs[i]))

\* line 406: max(outputs, key=score_output) keeps the first of the outputs of
\* greatest score
best_index(outputs) ==
    CHOOSE i \in DOMAIN outputs :
        \A j \in DOMAIN outputs :
            /\ ~score_less(score_output(outputs[i]), score_output(outputs[j]))
            /\ j < i => score_less(score_output(outputs[j]), score_output(outputs[i]))

\* lines 409-429: the clone of best_output
clone_best(best_output, agent_role, count) ==
    build_output(
        best_output.content, best_output.output_type, best_output.status,
        OutputMetadata("best_selected", agent_role, best_output.metadata.task_id,
                       best_output.metadata.task_name,
                       best_output.metadata.workflow_id,
                       best_output.metadata.execution_time,
                       best_output.metadata.word_count,
                       best_output.metadata.source_count,
                       best_output.metadata.confidence_score),
        best_output.validation, best_output.sections, best_output.tags,
        best_output.keywords,
        Append(best_output.processing_notes, <<"Selected as best from outputs", count>>))

\* ResultAggregator._select_best_output
select_best_output(outputs, agent_role) ==
    clone_best(outputs[best_index(outputs)], agent_role, Len(outputs))

\* ResultAggregator.create_consolidated_output
create_consolidated_output(outputs, consolidation_strategy, target_agent_role) ==
    IF outputs = <<>> THEN Raise("ValueError: No outputs provided for consolidation")
    ELSE IF consolidation_strategy = "merge"
    THEN merge_outputs(outputs, target_agent_role)
    ELSE IF consolidation_strategy = "summary"
    THEN summarize_outputs(outputs, target_agent_role)
    ELSE IF consolidation_strategy = "best"
    THEN select_best_output(outputs, target_agent_role)
    ELSE Raise("ValueError: Unknown consolidation strategy: " \o consolidation_strategy)

\* ------------------------------------- ResultAggregator: comparison report
\* A value of a comparison: a number n/d, or a text
Num(n, d) == [num |-> TRUE, n |-> n, d |-> d, s |-> ""]
Text(s) == [num |-> FALSE, n |-> 0, d |-> 1, s |-> s]
num_less(a, b) == a.n * b.d < b.n * a.d
num_add(a, b) == Num(a.n * b.d + b.n * a.d, a.d * b.d)

\* lines 476-490: the value of one output under a criterion
criterion_value(output, criterion) ==
    CASE criterion = "word_count" -> Num(OrZero(output.metadata.word_count), 1)
      [] criterion = "execution_time" -> Num(OrZero(output.metadata.execution_time), 1)
      [] criterion = "confidence_score" -> Num(OrZero(output.metadata.confidence_score), 10)
      [] criterion = "validation_score" ->
            IF output.validation # None
            THEN Num(Val(output.validation).validation_score[1],
                     Val(output.validation).validation_score[2])
            ELSE Num(0, 1)
      [] criterion = "status" -> Text(output.status)
      [] criterion = "content_type" -> Text(output.output_type)
      [] OTHER -> Text("N/A")

\* the place of values[i] when the list is sorted in increasing order
place(values, i) ==
    1 + Cardinality({j \in DOMAIN values : num_less(values[j], values[i])})
      + Cardinality({j \in DOMAIN values :
                        j < i /\ ~num_less(values[j], values[i])
                              /\ ~num_less(values[i], values[j])})

\* sorted(values)
sorted_values(values) ==
    List([k \in DOMAIN values |-> values[CHOOSE i \in DOMAIN values : place(values, i) = k]])

RECURSIVE num_sum(_)
num_sum(values) ==
    IF values = <<>> THEN Num(0, 1) ELSE num_add(Head(values), num_sum(Tail(values)))

\* statistics.mean
num_mean(values) == Num(num_sum(values).n, num_sum(values).d * Len(values))

\* the middle of a sorted list, or the mean of its two middle values
middle(ordered) ==
    IF Len(ordered) % 2 = 1 THEN ordered[(Len(ordered) + 1) \div 2]
    ELSE num_mean(<<ordered[Len(ordered) \div 2], ordered[Len(ordered) \div 2 + 1]>>)

\* statistics.median
num_median(values) == middle(sorted_values(values))

\* min(...) and max(...): the first least and the first greatest value
num_min(values) ==
    values[CHOOSE i \in DOMAIN values :
             \A j \in DOMAIN values :
                 /\ ~num_less(values[j], values[i])
                 /\ j < i => num_less(values[i], values[j])]
num_max(values) ==
    values[CHOOSE i \in DOMAIN values :
             \A j \in DOMAIN values :
                 /\ ~num_less(values[i], values[j])
                 /\ j < i => num_less(values[j], values[i])]

IsNumeric(v) == v.num

\* lines 498-505: the statistics of the numeric values, if there are any
criterion_stats(numeric_values) ==
    IF numeric_values = <<>> THEN None
    ELSE Some([min |-> num_min(numeric_values), max |-> num_max(numeric_values),
               avg |-> num_mean(numeric_values), median |-> num_median(numeric_values)])

\* lines 492-507
criterion_result(values, agents) ==
    [values |-> values, agents |-> agents,
     stats |-> criterion_stats(SelectSeq(values, IsNumeric))]

agent_roles(outputs) == List([i \in DOMAIN outputs |-> outputs[i].metadata.agent_role])

\* ResultAggregator._compare_by_criterion
compare_by_criterion(outputs, criterion) ==
    criterion_result(List([i \in DOMAIN outputs |-> criterion_value(outputs[i], criterion)]),
                     agent_roles(outputs))

\* round(score, 2), the score being n/d hundredths (halves go up)
round_hundredths(n, d) == (2 * n + d) \div (2 * d)

\* lines 513-535: the score of one output, in hundredths
rank_score(output) ==
    round_hundredths(
        (IF output.validation # None THEN Val(output.validation).validation_score[2] ELSE 1)
          * ((IF output.status = "success" THEN 3000
              ELSE IF output.status = "partial" THEN 1500 ELSE 0)
             + (IF Truthy(output.metadata.word_count)
                THEN Min2(Val(output.metadata.word_count), 2000) ELSE 0)
             + (IF Truthy(output.metadata.confidence_score)
                THEN 150 * Val(output.metadata.confidence_score) ELSE 0)
             + (IF output.sections # None
                THEN Min2(200 * Cardinality(DOMAIN Val(output.sections)), 1000) ELSE 0))
        + (IF output.validation # None
           THEN 2500 * Val(output.validation).validation_score[1] ELSE 0),
        IF output.validation # None THEN Val(output.validation).validation_score[2] ELSE 1)

\* lines 537-544: the entry of one output, before the sort
scored_output(output) ==
    [rank |-> 0, agent |-> output.metadata.agent_role, score |-> rank_score(output),
     status |-> output.status, word_count |-> output.metadata.word_count,
     validation_score |-> IF output.validation # None
                          THEN Some(Val(output.validation).validation_score) ELSE None]

\* a sort that puts the later of two entries of equal score first
rank_place_ties_reversed(scored_outputs, i) ==
    1 + Cardinality({j \in DOMAIN scored_outputs :
                        scored_outputs[j].score > scored_outputs[i].score})
      + Cardinality({j \in DOMAIN scored_outputs :
                        j > i /\ scored_outputs[j].score = scored_outputs[i].score})

\* line 547: sort(key=score, reverse=True) is stable: the place of entry i
rank_place(scored_outputs, i) ==
    1 + Cardinality({j \in DOMAIN scored_outputs :
                        scored_outputs[j].score > scored_outputs[i].score})
      + Cardinality({j \in DOMAIN scored_outputs :
                        j < i /\ scored_outputs[j].score = scored_outputs[i].score})

\* lines 547-549: the sorted entries, each with its rank
sort_and_rank(scored_outputs) ==
    List([k \in DOMAIN scored_outputs |->
            [scored_outputs[CHOOSE i \in DOMAIN scored_outputs :
                              rank_place(scored_outputs, i) = k]
                EXCEPT !.rank = k]])

\* ResultAggregator._rank_outputs
rank_outputs(outputs) ==
    sort_and_rank(List([i \in DOMAIN outputs |-> scored_output(outputs[i])]))

DefaultCriteria ==
    <<"word_count", "execution_time", "confidence_score", "validation_score",
      "status", "content_type">>

\* line 451: comparison_criteria or [...]
criteria_or_default(comparison_criteria) ==
    IF comparison_criteria # None /\ Val(comparison_criteria) # <<>>
    THEN Val(comparison_criteria) ELSE DefaultCriteria

\* lines 456-468: the report over the criteria
comparison(outputs, criteria) ==
    [output_count |-> Len(outputs), comparison_criteria |-> criteria,
     agents |-> agent_roles(outputs),
     detailed_comparison |->
        Dict([c \in {criteria[k] : k \in DOMAIN criteria} |->
                compare_by_criterion(outputs, c)]),
     ranking |-> rank_outputs(outputs)]

\* generate_comparison_report without the test of lines 448-449
generate_comparison_report_unguarded(outputs, comparison_criteria) ==
    comparison(outputs, criteria_or_default(comparison_criteria))

\* ResultAggregator.generate_comparison_report
generate_comparison_report(outputs, comparison_criteria) ==
    IF Len(outputs) < 2 THEN [error |-> "Need at least 2 outputs for comparison"]
    ELSE comparison(outputs, criteria_or_default(comparison_criteria))

\* ------------------------------------------------- OutputFormatter (pure)
\* A returned string is modelled by what it holds: an error message
\* [kind |-> "error", text], a rendering [kind |-> "rendering", format, parts]
\* with the names of the blocks written, or the blocks of several outputs
\* [kind |-> "blocks", blocks]. An exception is the text str(e) gives.
\* The options are a dict [cls |-> "dict", items] or a value of another class.
ErrorText(prefix, e) == [kind |-> "error", text |-> prefix \o e]
Rendering(format, parts) == [kind |-> "rendering", format |-> format, parts |-> parts]
Blocks(blocks) == [kind |-> "blocks", blocks |-> blocks]

DictOptions(items) == [cls |-> "dict", items |-> items]
NotADict == [cls |-> "str", items |-> EmptyMap]

\* lines 57, 108: custom_options or {}
options_or_empty(custom_options) ==
    IF custom_options = None \/ custom_options = Some(DictOptions(EmptyMap))
    THEN DictOptions(EmptyMap)
    ELSE Val(custom_options)

\* options.get(key, default)
options_get(options, key, default) ==
    IF options.cls # "dict" THEN Raise("'str' object has no attribute 'get'")
    ELSE IF key \in DOMAIN options.items THEN Ok(options.items[key])
    ELSE Ok(default)

\* {**options, key: value}
options_with(options, key, value) ==
    DictOptions([k \in DOMAIN options.items \cup {key} |->
                   IF k = key THEN value ELSE options.items[k]])

\* target_format.lower()
lower(target_format) ==
    IF target_format = NotAStr THEN Raise("'int' object has no attribute 'lower'")
    ELSE IF target_format = "JSON" THEN Ok("json")
    ELSE IF target_format = "Summary" THEN Ok("summary")
    ELSE Ok(target_format)

\* json.dumps(content) without a default: fails on a value json cannot encode
json_dumps(content) ==
    IF content.kind \in {"dict", "list"} /\ ~content.raw.serializable
    THEN Raise("Object of type Report is not JSON serializable")
    ELSE Ok("json")

\* StructuredOutput.to_json / to_dict: model_dump_json fails on such a value
model_dump_json(output) ==
    IF output.content.kind \in {"dict", "list"} /\ ~output.content.raw.serializable
    THEN Raise("Unable to serialize unknown type: Report")
    ELSE Ok("json")

\* the names of the blocks, those whose condition is false left out
parts_where(names, written) == SelectSeq(names, LAMBDA n : written[n])

has_sections(output) == output.sections # None /\ DOMAIN Val(output.sections) # {}

\* OutputFormatter._format_as_json
format_as_json(output, options) ==
    IF options_get(options, "indent", 2).exc # NoExc
    THEN Raise(options_get(options, "indent", 2).exc)
    ELSE IF options_get(options, "include_metadata", TRUE).val
    THEN IF model_dump_json(output).exc # NoExc
         THEN Raise(model_dump_json(output).exc)
         ELSE Ok(Rendering("json", <<"object">>))
    ELSE Ok(Rendering("json", <<"content">>))

\* the content block of _format_as_html, _format_as_markdown, _format_as_xml:
\* JSON content goes through json.dumps, any other through str()
content_block(output) ==
    IF output.output_type = "json" THEN json_dumps(output.content) ELSE Ok("str")

\* OutputFormatter._format_as_html
format_as_html(output, options) ==
    IF options_get(options, "include_css", TRUE).exc # NoExc
    THEN Raise(options_get(options, "include_css", TRUE).exc)
    ELSE IF content_block(output).exc # NoExc THEN Raise(content_block(output).exc)
    ELSE Ok(Rendering("html",
            parts_where(<<"css", "metadata", "content", "sections", "validation">>,
                [css |-> options_get(options, "include_css", TRUE).val,
                 metadata |-> options_get(options, "include_metadata", TRUE).val,
                 content |-> TRUE, sections |-> has_sections(output),
                 validation |-> output.validation # None])))

\* OutputFormatter._format_as_markdown
format_as_markdown(output, options) ==
    IF options_get(options, "include_metadata", TRUE).exc # NoExc
    THEN Raise(options_get(options, "include_metadata", TRUE).exc)
    ELSE IF content_block(output).exc # NoExc THEN Raise(content_block(output).exc)
    ELSE Ok(Rendering("markdown",
            parts_where(<<"title", "metadata", "content", "sections", "tags", "keywords", "validation">>,
                [title |-> TRUE,
                 metadata |-> options_get(options, "include_metadata", TRUE).val,
                 content |-> TRUE, sections |-> has_sections(output),
                 tags |-> output.tags # {}, keywords |-> output.keywords # {},
                 validation |-> output.validation # None])))

\* OutputFormatter._format_as_csv
format_as_csv(output, options) ==
    Ok(Rendering("csv",
        parts_where(<<"headers", "basic", "word_count", "execution_time", "content", "sections">>,
            [headers |-> TRUE, basic |-> TRUE,
             word_count |-> Truthy(output.metadata.word_count),
             execution_time |-> Truthy(output.metadata.execution_time),
             content |-> TRUE, sections |-> has_sections(output)])))

\* OutputFormatter._format_as_xml
format_as_xml(output, options) ==
    IF content_block(output).exc # NoExc THEN Raise(content_block(output).exc)
    ELSE Ok(Rendering("xml",
            parts_where(<<"metadata", "word_count", "content", "sections">>,
                [metadata |-> TRUE, word_count |-> Truthy(output.metadata.word_count),
                 content |-> TRUE, sections |-> has_sections(output)])))

\* OutputFormatter._format_as_summary
format_as_summary(output, options) ==
    Ok(Rendering("summary",
        parts_where(<<"agent", "status", "time", "words", "validation", "preview">>,
            [agent |-> TRUE, status |-> TRUE, time |-> TRUE,
             words |-> Truthy(output.metadata.word_count),
             validation |-> output.validation # None, preview |-> TRUE])))

\* the templates the loader finds
Templates == {"report.j2"}

\* OutputFormatter._format_with_template: its own try / except turns a
\* template that is not found into a string
format_with_template(output, template_name, options) ==
    IF Val(template_name) \in Templates THEN Ok(Rendering("template", <<Val(template_name)>>))
    ELSE Ok(ErrorText("Template rendering error: ", Val(template_name)))

\* lines 60-77: the try block of format_output
format_output_try(output, target_format, template_name, options) ==
    IF lower(target_format).exc # NoExc THEN Raise(lower(target_format).exc)
    ELSE IF lower(target_format).val = "json" THEN format_as_json(output, options)
    ELSE IF lower(target_format).val = "html" THEN format_as_html(output, options)
    ELSE IF lower(target_format).val = "markdown" THEN format_as_markdown(output, options)
    ELSE IF lower(target_format).val = "csv" THEN format_as_csv(output, options)
    ELSE IF lower(target_format).val = "xml" THEN format_as_xml(output, options)
    ELSE IF lower(target_format).val = "template"
    THEN IF template_name = None \/ template_name = Some("")
         THEN Raise("Template name required for template format")
         ELSE format_with_template(output, template_name, options)
    ELSE IF lower(target_format).val = "summary" THEN format_as_summary(output, options)
    ELSE Raise("Unsupported format: " \o target_format)

\* format_output with its except clause left out
format_output_propagating(output, target_format, template_name, custom_options) ==
    format_output_try(output, target_format, template_name, options_or_empty(custom_options))

\* lines 79-81: the except clause of format_output
format_output_except(body) ==
    IF body.exc = NoExc THEN body
    ELSE Ok(ErrorText("Error formatting output: ", body.exc))

\* format_output taken to strip the tags of the output in place
outputs_after_tag_cleanup(outputs) ==
    [i \in DOMAIN outputs |-> [outputs[i] EXCEPT !.tags = {}]]

\* the outputs given to format_output or format_multiple_outputs, after the
\* call: the formatter reads attributes of the outputs, builds new strings and
\* new option dicts, and assigns to no attribute of an output
outputs_after_formatting(outputs) == outputs

\* OutputFormatter.format_output
format_output(output, target_format, template_name, custom_options) ==
    format_output_except(
        format_output_try(output, target_format, template_name,
                          options_or_empty(custom_options)))

\* the first exception among the calls, or the list of their values
all_or_first_exc(calls) ==
    IF \E i \in DOMAIN calls : calls[i].exc # NoExc
    THEN Raise(calls[CHOOSE i \in DOMAIN calls :
                       /\ calls[i].exc # NoExc
                       /\ \A j \in 1..(i - 1) : calls[j].exc = NoExc].exc)
    ELSE Ok([i \in DOMAIN calls |-> calls[i].val])

\* lines 110-116: each output formatted on its own, under its header
format_separately(outputs, target_format, template_name, options) ==
    IF all_or_first_exc([i \in DOMAIN outputs |->
            format_output(outputs[i], target_format, template_name, Some(options))]).exc # NoExc
    THEN Raise(all_or_first_exc([i \in DOMAIN outputs |->
            format_output(outputs[i], target_format, template_name, Some(options))]).exc)
    ELSE Ok(Blocks(all_or_first_exc([i \in DOMAIN outputs |->
            format_output(outputs[i], target_format, template_name, Some(options))]).val))

\* OutputFormatter._format_multiple_as_json
format_multiple_as_json(outputs, options) ==
    IF options_get(options, "include_metadata", TRUE).exc # NoExc
    THEN Raise(options_get(options, "include_metadata", TRUE).exc)
    ELSE IF options_get(options, "include_metadata", TRUE).val
            /\ \E i \in DOMAIN outputs : model_dump_json(outputs[i]).exc # NoExc
    THEN Raise("Unable to serialize unknown type: Report")
    ELSE Ok(Rendering("json",
            [i \in DOMAIN outputs |->
               IF options_get(options, "include_metadata", TRUE).val
               THEN "object" ELSE "content"]))

\* the rendering of every output, or the first exception
each_rendered(renderings, format) ==
    IF all_or_first_exc(renderings).exc # NoExc
    THEN Raise(all_or_first_exc(renderings).exc)
    ELSE Ok(Rendering(format, all_or_first_exc(renderings).val))

\* OutputFormatter._format_multiple_as_html
format_multiple_as_html(outputs, options) ==
    IF options_get(options, "include_css", TRUE).exc # NoExc
    THEN Raise(options_get(options, "include_css", TRUE).exc)
    ELSE each_rendered([i \in DOMAIN outputs |->
            format_as_html(outputs[i], options_with(options, "include_css", FALSE))],
            "html")

\* OutputFormatter._format_multiple_as_markdown
format_multiple_as_markdown(outputs, options) ==
    IF options_get(options, "title", "Crew Execution Results").exc # NoExc
    THEN Raise(options_get(options, "title", "Crew Execution Results").exc)
    ELSE each_rendered([i \in DOMAIN outputs |->
            format_as_markdown(outputs[i], options_with(options, "include_metadata", FALSE))],
            "markdown")

\* OutputFormatter._format_multiple_as_summary
format_multiple_as_summary(outputs, options) ==
    each_rendered([i \in DOMAIN outputs |-> format_as_summary(outputs[i], options)],
                  "summary")

\* lines 118-126: the try block of the aggregated branch
format_aggregated_try(outputs, target_format, template_name, options) ==
    IF lower(target_format).exc # NoExc THEN Raise(lower(target_format).exc)
    ELSE IF lower(target_format).val = "json" THEN format_multiple_as_json(outputs, options)
    ELSE IF lower(target_format).val = "html" THEN format_multiple_as_html(outputs, options)
    ELSE IF lower(target_format).val = "markdown" THEN format_multiple_as_markdown(outputs, options)
    ELSE IF lower(target_format).val = "summary" THEN format_multiple_as_summary(outputs, options)
    ELSE format_separately(outputs, target_format, template_name, options)

\* lines 128-130: the except clause of format_multiple_outputs
format_multiple_except(body) ==
    IF body.exc = NoExc THEN body
    ELSE Ok(ErrorText("Error formatting outputs: ", body.exc))

\* OutputFormatter.format_multiple_outputs
format_multiple_outputs(outputs, target_format, aggregate, template_name, custom_options) ==
    IF ~aggregate
    THEN format_separately(outputs, target_format, template_name,
                           options_or_empty(custom_options))
    ELSE format_multiple_except(
            format_aggregated_try(outputs, target_format, template_name,
                                  options_or_empty(custom_options)))

\* ------------------------------------------------- WorkflowResult (pure)
\* the values of a list in the order of their first occurrence
RECURSIVE distinct_in_order(_)
distinct_in_order(values) ==
    IF values = <<>> THEN <<>>
    ELSE <<Head(values)>> \o
         SelectSeq(distinct_in_order(Tail(values)), LAMBDA v : v # Head(values))

count_where(outputs, holds(_)) == Cardinality({i \in DOMAIN outputs : holds(outputs[i])})

\* [f(o) for o in outputs if f(o)], f an Optional number of the metadata
truthy_numbers(outputs, field) ==
    SelectSeq([i \in DOMAIN outputs |-> outputs[i].metadata[field]], Truthy)

\* sum(xs) if xs else 0, and mean(xs) if xs else the default
sum_or_zero(numbers) ==
    IF numbers = <<>> THEN 0 ELSE sum([i \in DOMAIN numbers |-> Val(numbers[i])])
mean_or(numbers, default) ==
    IF numbers = <<>> THEN default
    ELSE Some(<<sum([i \in DOMAIN numbers |-> Val(numbers[i])]), Len(numbers)>>)

\* the scores of the outputs that carry a validation
validation_scores(outputs) ==
    [i \in DOMAIN SelectSeq(outputs, LAMBDA o : o.validation # None) |->
        Num(Val(SelectSeq(outputs, LAMBDA o : o.validation # None)[i].validation).validation_score[1],
            Val(SelectSeq(outputs, LAMBDA o : o.validation # None)[i].validation).validation_score[2])]

\* lines 81-90: the entry of one agent role in agent_performance
agent_entry(role_outputs) ==
    [output_count |-> Len(role_outputs),
     success_rate |-> <<count_where(role_outputs, LAMBDA o : o.status = "success"),
                        Len(role_outputs)>>,
     avg_word_count |-> mean_or(truthy_numbers(role_outputs, "word_count"), None),
     avg_execution_time |-> mean_or(truthy_numbers(role_outputs, "execution_time"), None)]

\* WorkflowResult._calculate_analytics
calculate_analytics(outputs, execution_time) ==
    IF Len(outputs) = 0 THEN [error |-> "No outputs to analyze"]
    ELSE [total_outputs |-> Len(outputs),
          success_rate |-> <<count_where(outputs, LAMBDA o : o.status = "success"),
                             Len(outputs)>>,
          agent_count |-> Cardinality({outputs[i].metadata.agent_role : i \in DOMAIN outputs}),
          agent_roles |-> distinct_in_order([i \in DOMAIN outputs |->
                                               outputs[i].metadata.agent_role]),
          agent_performance |->
              [role \in {outputs[i].metadata.agent_role : i \in DOMAIN outputs} |->
                  agent_entry(SelectSeq(outputs,
                                        LAMBDA o : o.metadata.agent_role = role))],
          content_metrics |->
              [total_words |-> sum_or_zero(truthy_numbers(outputs, "word_count")),
               avg_words_per_output |->
                   mean_or(truthy_numbers(outputs, "word_count"), Some(<<0, 1>>))],
          performance_metrics |->
              [total_execution_time |-> execution_time,
               avg_task_time |->
                   mean_or(truthy_numbers(outputs, "execution_time"), Some(<<0, 1>>)),
               avg_confidence |->
                   mean_or(truthy_numbers(outputs, "confidence_score"), None)],
          quality_metrics |->
              [outputs_with_validation |->
                   count_where(outputs, LAMBDA o : o.validation # None),
               avg_validation_score |->
                   IF validation_scores(outputs) = <<>> THEN None
                   ELSE Some(num_mean(validation_scores(outputs))),
               outputs_with_errors |->
                   count_where(outputs, LAMBDA o : o.validation # None
                                                   /\ Val(o.validation).errors # <<>>),
               outputs_with_warnings |->
                   count_where(outputs, LAMBDA o : o.validation # None
                                                   /\ Val(o.validation).warnings # <<>>)]]

\* analytics[key]
analytics_key(analytics, key) ==
    IF key \in DOMAIN analytics THEN Ok(analytics[key])
    ELSE Raise("KeyError: '" \o key \o "'")

\* WorkflowResult._generate_summary, on the analytics it read
generate_summary(analytics, workflow_id, workflow_name, execution_time) ==
    IF analytics_key(analytics, "total_outputs").exc # NoExc
    THEN Raise(analytics_key(analytics, "total_outputs").exc)
    ELSE Ok([workflow_id |-> workflow_id, workflow_name |-> workflow_name,
             execution_time |-> execution_time,
             total_outputs |-> analytics.total_outputs,
             success_rate |-> analytics.success_rate,
             total_words |-> analytics.content_metrics.total_words,
             agent_count |-> analytics.agent_count,
             quality_score |-> analytics.quality_metrics.avg_validation_score])

\* lines 142-149: the insight on the success rate
success_insight(success_rate) ==
    IF success_rate[1] = success_rate[2]
    THEN "Perfect execution - all outputs completed successfully!"
    ELSE IF 10 * success_rate[1] >= 8 * success_rate[2]
    THEN "High success rate - most outputs completed successfully"
    ELSE IF 2 * success_rate[1] >= success_rate[2]
    THEN "Moderate success rate - some outputs may need attention"
    ELSE "Low success rate - workflow may need debugging"

\* lines 152-156, 159-163: the insights on the volume and on the time
volume_insight(words) ==
    IF words > 10000 THEN <<"High content volume generated">>
    ELSE IF words > 5000 THEN <<"Moderate content volume generated">>
    ELSE <<>>
time_insight(seconds) ==
    IF seconds > 300 THEN <<"Long execution time - consider optimization">>
    ELSE IF seconds < 30 THEN <<"Fast execution time - efficient workflow">>
    ELSE <<>>

\* lines 166-170: the insight on the quality
quality_insight(quality_metrics) ==
    IF /\ quality_metrics.avg_validation_score # None
       /\ Val(quality_metrics.avg_validation_score).n # 0
       /\ num_less(Num(9, 10), Val(quality_metrics.avg_validation_score))
    THEN <<"High quality outputs with excellent validation scores">>
    ELSE IF quality_metrics.outputs_with_errors > 0
    THEN <<<<quality_metrics.outputs_with_errors, "outputs have validation errors">>>>
    ELSE <<>>

\* lines 173-176: max() keeps the first role of the greatest success rate
best_agent(roles, performance) ==
    roles[CHOOSE i \in DOMAIN roles :
        \A j \in DOMAIN roles :
            /\ performance[roles[j]].success_rate[1]
                 * performance[roles[i]].success_rate[2]
               <= performance[roles[i]].success_rate[1]
                    * performance[roles[j]].success_rate[2]
            /\ j < i =>
                 performance[roles[j]].success_rate[1]
                   * performance[roles[i]].success_rate[2]
                 < performance[roles[i]].success_rate[1]
                     * performance[roles[j]].success_rate[2]]
agent_insight(roles, performance) ==
    IF performance[best_agent(roles, performance)].success_rate[1]
         = performance[best_agent(roles, performance)].success_rate[2]
    THEN <<<<best_agent(roles, performance), "achieved perfect performance">>>>
    ELSE <<>>

\* lines 179-181: the insight on the output types
diversity_insight(outputs) ==
    IF Cardinality({outputs[i].output_type : i \in DOMAIN outputs}) > 1
    THEN <<<<"Diverse output types",
             distinct_in_order([i \in DOMAIN outputs |-> outputs[i].output_type])>>>>
    ELSE <<>>

\* WorkflowResult._generate_insights, on the analytics it read
generate_insights(analytics, outputs) ==
    IF analytics_key(analytics, "success_rate").exc # NoExc
    THEN Raise(analytics_key(analytics, "success_rate").exc)
    ELSE Ok(<<success_insight(analytics.success_rate)>>
            \o volume_insight(analytics.content_metrics.total_words)
            \o time_insight(analytics.performance_metrics.total_execution_time)
            \o quality_insight(analytics.quality_metrics)
            \o agent_insight(analytics.agent_roles, analytics.agent_performance)
            \o diversity_insight(outputs))

\* WorkflowResult.__init__: the three caches start empty; computed counts the
\* runs of _calculate_analytics, _generate_summary and _generate_insights
WorkflowResult(workflow_id, workflow_name, execution_time) ==
    [workflow_id |-> workflow_id, workflow_name |-> workflow_name,
     execution_time |-> execution_time,
     _analytics |-> None, _summary |-> None, _insights |-> None,
     computed |-> [analytics |-> 0, summary |-> 0, insights |-> 0]]

\* lines 41-46: the property analytics; the object after the access
after_analytics(self, outputs) ==
    IF self._analytics = None
    THEN [self EXCEPT !._analytics = Some(calculate_analytics(outputs, self.execution_time)),
                      !.computed.analytics = @ + 1]
    ELSE self

\* the property analytics recomputing on every access
after_analytics_uncached(self, outputs) ==
    [self EXCEPT !._analytics = Some(calculate_analytics(outputs, self.execution_time)),
                 !.computed.analytics = @ + 1]

\* lines 48-53: the property summary; read is the object after the access to
\* analytics that _generate_summary starts with
after_summary(self, read) ==
    IF self._summary # None THEN self
    ELSE IF generate_summary(Val(read._analytics), self.workflow_id,
                             self.workflow_name, self.execution_time).exc # NoExc
    THEN [read EXCEPT !.computed.summary = @ + 1]
    ELSE [read EXCEPT !.computed.summary = @ + 1,
                      !._summary = Some(generate_summary(Val(read._analytics),
                          self.workflow_id, self.workflow_name, self.execution_time).val)]

\* lines 55-60: the property insights
after_insights(self, read, outputs) ==
    IF self._insights # None THEN self
    ELSE IF generate_insights(Val(read._analytics), outputs).exc # NoExc
    THEN [read EXCEPT !.computed.insights = @ + 1]
    ELSE [read EXCEPT !.computed.insights = @ + 1,
                      !._insights = Some(generate_insights(Val(read._analytics), outputs).val)]

\* what an access to a property returns or raises, given the object after it
property_value(after, name, failure) ==
    IF after[name] # None THEN Ok(Val(after[name])) ELSE Raise(failure)

\* ResultAggregator.aggregate_workflow_results: the WorkflowResult over the
\* list; the start defaults to the earliest timestamp, the end to now
aggregate_workflow_results(outputs, workflow_id, workflow_name, execution_time) ==
    WorkflowResult(workflow_id, workflow_name, execution_time)

\* ------------------------------------------------ monitoring: WorkflowMonitor
\* A workflow id is held as the parts its text has between underscores:
\* "content_20240101_120000" is <<"content", "20240101", "120000">>.

\* line 32: deque(maxlen=1000)
HistoryMaxlen == 1000

\* WorkflowMonitor.__init__; enable_prometheus is the argument and the import
\* together, active_workflows the gauge
WorkflowMonitor(enable_prometheus) ==
    [enable_prometheus |-> enable_prometheus, active_executions |-> EmptyMap,
     execution_metrics |-> EmptyMap, performance_history |-> <<>>,
     active_workflows |-> 0]

\* dict.pop(k) and del dict[k]: the dict without the key
Without(f, k) == [x \in (DOMAIN f) \ {k} |-> f[x]]

\* defaultdict(list)[k]
list_at(f, k) == IF k \in DOMAIN f THEN f[k] ELSE <<>>

\* deque.append under maxlen
deque_append(d, x) == IF Len(d) >= HistoryMaxlen THEN Append(Tail(d), x) ELSE Append(d, x)

\* WorkflowMonitor.start_execution: the monitor afterwards (times are left out)
start_execution(self, workflow_id) ==
    [self EXCEPT
        !.active_executions =
            Put(@, workflow_id, [workflow_id |-> workflow_id,
                                 workflow_name |-> workflow_id[1]]),
        !.active_workflows = IF self.enable_prometheus THEN @ + 1 ELSE @]

\* lines 120-126: the record of an ended execution
monitor_record(execution_data, success, execution_time) ==
    [workflow_id |-> execution_data.workflow_id,
     workflow_name |-> execution_data.workflow_name,
     execution_time |-> execution_time, success |-> success]

\* end_execution writing the record without a test of the id
end_execution_untested(self, workflow_id, success, execution_time) ==
    [self EXCEPT
        !.active_executions = Without(@, workflow_id),
        !.execution_metrics =
            Put(@, workflow_id[1],
                Append(list_at(@, workflow_id[1]),
                       monitor_record([workflow_id |-> workflow_id, workflow_name |-> workflow_id[1]],
                                      success, execution_time))),
        !.performance_history =
            deque_append(@, monitor_record([workflow_id |-> workflow_id, workflow_name |-> workflow_id[1]],
                                           success, execution_time)),
        !.active_workflows = IF self.enable_prometheus THEN @ - 1 ELSE @]

\* WorkflowMonitor.end_execution: the monitor afterwards; the alerts of
\* _check_performance_alerts are logged and dropped
end_execution(self, workflow_id, success, execution_time) ==
    IF workflow_id \notin DOMAIN self.active_executions THEN self
    ELSE [self EXCEPT
            !.active_executions = Without(@, workflow_id),
            !.execution_metrics =
                Put(@, self.active_executions[workflow_id].workflow_name,
                    Append(list_at(@, self.active_executions[workflow_id].workflow_name),
                           monitor_record(self.active_executions[workflow_id],
                                          success, execution_time))),
            !.performance_history =
                deque_append(@, monitor_record(self.active_executions[workflow_id],
                                               success, execution_time)),
            !.active_workflows = IF self.enable_prometheus THEN @ - 1 ELSE @]

\* ------------------------------------------------- orchestrator: CrewManager
\* CrewManager.__init__
CrewManager(injected) ==
    [active_crews |-> EmptyMap, execution_history |-> <<>>, monitor |-> injected]

\* what a call of the manager leaves: the manager, the exception or the value,
\* and the calls made to the monitor and to the crew, in order
Leaves(self, result, calls) == [self |-> self, result |-> result, calls |-> calls]

\* the calls execute_workflow makes
StartCall(workflow_id) == [fn |-> "start_execution", workflow_id |-> workflow_id, success |-> None]
KickoffCall(workflow_id) == [fn |-> "kickoff", workflow_id |-> workflow_id, success |-> None]
EndCall(workflow_id, success) == [fn |-> "end_execution", workflow_id |-> workflow_id, success |-> Some(success)]

\* the classes `except Exception` does not catch
NotExceptions == {"KeyboardInterrupt", "SystemExit", "GeneratorExit"}
\* an exception of class cls with message msg, and how a caller sees it
Exc(cls, msg) == [raises |-> TRUE, cls |-> cls, msg |-> msg]
Returns(value) == [raises |-> FALSE, value |-> value]
exc_text(e) == IF e.msg = "" THEN e.cls ELSE e.cls \o ": " \o e.msg

\* line 49: f"{config.name}_{datetime.now().strftime('%Y%m%d_%H%M%S')}"
new_workflow_id(name, stamp) == name \o stamp

\* CrewManager.load_workflow; made is what Crew(...) does (an exception is
\* logged when `except Exception` catches it, and leaves the call either way)
load_workflow(self, name, stamp, made) ==
    IF made.raises THEN Leaves(self, Raise(exc_text(made)), <<>>)
    ELSE Leaves([self EXCEPT !.active_crews = Put(@, new_workflow_id(name, stamp), made.value)],
                Ok(new_workflow_id(name, stamp)), <<>>)

\* line 87: inputs or {}
inputs_or_empty(given) == IF given = None \/ Val(given) = EmptyMap THEN EmptyMap ELSE Val(given)

\* lines 102-113, 117-123: the run returned
execute_workflow_returned(self, workflow_id, execution_inputs, value, execution_time) ==
    Leaves([self EXCEPT
              !.execution_history =
                  Append(@, [workflow_id |-> workflow_id, execution_time |-> execution_time,
                             status |-> "success", result |-> value,
                             inputs |-> execution_inputs]),
              !.monitor = end_execution(@, workflow_id, TRUE, execution_time)],
           Ok([workflow_id |-> workflow_id, status |-> "success", result |-> value,
               execution_time |-> execution_time]),
           <<EndCall(workflow_id, TRUE)>>)

\* lines 125-143: the handler of `except Exception as e`
execute_workflow_unmonitored(self, workflow_id, execution_inputs, e, execution_time) ==
    Leaves([self EXCEPT
              !.execution_history =
                  Append(@, [workflow_id |-> workflow_id, execution_time |-> execution_time,
                             status |-> "failed", error |-> e.msg,
                             inputs |-> execution_inputs])],
           Raise(exc_text(e)), <<>>)

execute_workflow_except(self, workflow_id, execution_inputs, e, execution_time) ==
    Leaves([self EXCEPT
              !.execution_history =
                  Append(@, [workflow_id |-> workflow_id, execution_time |-> execution_time,
                             status |-> "failed", error |-> e.msg,
                             inputs |-> execution_inputs]),
              !.monitor = end_execution(@, workflow_id, FALSE, execution_time)],
           Raise(exc_text(e)), <<EndCall(workflow_id, FALSE)>>)

\* lines 91-96: the try block up to the end of the run; ran is what
\* crew.kickoff does
execute_workflow_try(self, workflow_id, execution_inputs, ran, execution_time) ==
    IF ~ran.raises
    THEN execute_workflow_returned(self, workflow_id, execution_inputs, ran.value, execution_time)
    ELSE IF ran.cls \notin NotExceptions
    THEN execute_workflow_except(self, workflow_id, execution_inputs, ran, execution_time)
    ELSE Leaves(self, Raise(exc_text(ran)), <<>>)

\* the calls made before the outcome of the run is handled
WithCallsBefore(before, left) == [left EXCEPT !.calls = before \o @]

\* CrewManager.execute_workflow
execute_workflow(self, workflow_id, given, ran, execution_time) ==
    IF workflow_id \notin DOMAIN self.active_crews
    THEN Leaves(self, Raise("ValueError: Workflow not found"), <<>>)
    ELSE WithCallsBefore(
            <<StartCall(workflow_id), KickoffCall(workflow_id)>>,
            execute_workflow_try([self EXCEPT !.monitor = start_execution(@, workflow_id)],
                                 workflow_id, inputs_or_empty(given), ran, execution_time))

\* str.startswith on texts held as their parts; within a part only the empty
\* text and the part itself are taken as its prefixes
part_startswith(part, prefix) == prefix = "" \/ part = prefix
startswith(text, prefix) ==
    /\ Len(prefix) <= Len(text)
    /\ \A i \in 1..(Len(prefix) - 1) : text[i] = prefix[i]
    /\ part_startswith(text[Len(prefix)], prefix[Len(prefix)])

\* the items of a list that satisfy keep(_), in order
RECURSIVE filtered(_, _, _)
filtered(records, keep(_), i) ==
    IF i > Len(records) THEN <<>>
    ELSE (IF keep(records[i]) THEN <<records[i]>> ELSE <<>>) \o filtered(records, keep, i + 1)

\* CrewManager.get_execution_history; "" and None are falsy
get_execution_history(self, workflow_name) ==
    IF workflow_name # None /\ Val(workflow_name) # <<"">>
    THEN Leaves(self, Ok(LET matches(record) == startswith(record.workflow_id, Val(workflow_name))
                         IN filtered(self.execution_history, matches, 1)), <<>>)
    ELSE Leaves(self, Ok(self.execution_history), <<>>)

\* CrewManager.cleanup_workflow
cleanup_workflow(self, workflow_id) ==
    IF workflow_id \in DOMAIN self.active_crews
    THEN Leaves([self EXCEPT !.active_crews = Without(@, workflow_id)], Ok(TRUE), <<>>)
    ELSE Leaves(self, Ok(FALSE), <<>>)

\* The outputs handed to the aggregator: built by callers, with a status, a
\* role, a short text, and the measures the strategies read.
AggOutput(status, agent_role, actual, word_count, confidence_score, validation_score, secs, tags, error_details) ==
    [content |-> Content("str", "asis", [BaseRaw EXCEPT !.words = actual, !.actual = actual]),
     output_type |-> "text", status |-> status,
     metadata |-> [agent_id |-> "agent_0", agent_role |-> agent_role,
                   task_id |-> "task_0", task_name |-> PyNone,
                   workflow_id |-> "wf_1", execution_time |-> Some(3),
                   word_count |-> word_count, source_count |-> None,
                   confidence_score |-> confidence_score],
     validation |-> IF validation_score = None THEN None
                    ELSE Some([is_valid |-> TRUE,
                               validation_score |-> Val(validation_score),
                               errors |-> <<>>, warnings |-> <<>>,
                               requirements_met |-> EmptyMap]),
     sections |-> Some([n \in secs |-> status \o " text of " \o n]), tags |-> tags,
     keywords |-> {},
     processing_notes |-> <<>>, error_details |-> error_details]

AggOutputs ==
    {AggOutput("success", "Researcher", 2, Some(600), None, Some(<<9, 10>>), {},
               {"ai", "agents", "llm", "testing", "2024", "2025"}, None),
     AggOutput("partial", "Content Writer", 2, Some(100), None, Some(<<1, 2>>), {}, {}, None),
     AggOutput("success", "Researcher", 2, Some(2500), None, None, {}, {}, None),
     AggOutput("success", "Researcher", 3, Some(3000), None, None, {}, {}, None),
     AggOutput("failed", "Researcher", 2, None, None, None, {"summary"}, {}, Some("boom")),
     AggOutput("pending", "Content Writer", 2, None, Some(5), None, {"summary"},
               {"ml", "python", "crewai", "gpt4", "openai", "groq"}, None),
     AggOutput("failed", "Content Writer", 2, Some(2500), Some(8), Some(<<1, 1>>),
               {"summary"}, {}, Some("timeout")),
     AggOutput("partial", "Researcher", 2, Some(100), Some(7), None,
               {"summary", "findings"}, {"ai"}, None),
     AggOutput("pending", "Researcher", 1, None, None, None, {}, {}, None),
     AggOutput("failed", "Researcher", 1, None, None, None, {}, {}, Some("boom"))}

\* ------------------------------------------------------------- the inputs
\* Texts, by what type detection finds in them (a feature that detection
\* never reaches is left at its default).
DetectRaws ==
    {r \in {[BaseRaw EXCEPT !.json = j, !.yaml = y, !.md = m, !.html = h, !.csv = c] :
              j \in {"error", "dict", "list", "scalar", "str", "deep"},
              y \in {"none", "dict", "list"}, m \in BOOLEAN, h \in BOOLEAN,
              c \in BOOLEAN} :
        /\ r.json # "error" => r.yaml = "none"
        /\ (r.json # "error" \/ r.yaml # "none") => (~r.html /\ ~r.csv)}

\* Inputs of the other classes.
ClassRaws == {[BaseRaw EXCEPT !.cls = c] : c \in {"dict", "list", "other"}}

\* Markdown texts and dicts, by the metadata and sections extracted.
MetaRaws ==
    {[BaseRaw EXCEPT !.cls = c, !.md = (c = "str"), !.words = w, !.cites = n,
                     !.conf = f, !.secs = ss] :
        c \in {"str", "dict"}, w \in 0..MaxWords, n \in 0..MaxSources,
        f \in {None, Some(5), Some(9)}, ss \in SUBSET {"summary", "findings"}}

\* Dicts, by their 'sources', confidence, 'tags' and 'keywords' entries.
DictRaws ==
    {[BaseRaw EXCEPT !.cls = "dict", !.srcField = f, !.srcLen = n] :
        f \in {"list", "str"}, n \in 0..MaxSources}
    \cup {[BaseRaw EXCEPT !.cls = "dict", !.conf = Some(f)] : f \in {NaN, 0, 15}}
    \cup {[BaseRaw EXCEPT !.cls = "dict", !.tagsBad = b, !.kwBad = k, !.tags = t, !.kws = t] :
            b \in BOOLEAN, k \in BOOLEAN, t \in {{}, {"ai", "ml"}}}

RawInputs == DetectRaws \cup ClassRaws \cup MetaRaws \cup DictRaws

\* Provenance arguments: the ids are strings by their annotations, but
\* nothing checks a caller's value before pydantic does.
ProvInputs ==
    [agent_id : {"agent_0", NotAStr}, agent_role : {"Researcher", PyNone},
     task_id : {PyNone, "task_0"}, task_name : {PyNone},
     workflow_id : {"wf_1"}, execution_time : {None, Some(3)}]

WellTyped(prov) ==
    /\ IsStr(prov.agent_id) /\ IsStr(prov.agent_role)
    /\ IsOptStr(prov.task_id) /\ IsOptStr(prov.task_name)
    /\ IsOptStr(prov.workflow_id)

\* Schemas: no schema, or thresholds around the bounds of the inputs.
SchemaInputs ==
    {None} \cup
    {Some([min_word_count |-> mn, max_word_count |-> mx, min_confidence |-> 7,
           required_sources |-> rs, required_sections |-> sec]) :
        mn \in {None, Some(2)}, mx \in {None, Some(2)},
        rs \in {None, Some(2)}, sec \in {<<>>, <<"summary">>}}

\* ------------------------------------------------------------------ state
VARIABLES
    call,          \* the last operation called, with its arguments
    ret,           \* how it ended and what it returned
    output,        \* the StructuredOutput a caller holds and validates
    custom_rules,  \* OutputValidator.custom_rules
    outputs,       \* the list of StructuredOutputs handed to the aggregator
    workflow_result,    \* the WorkflowResult built over outputs, if any
    active_crews,       \* CrewManager.active_crews
    execution_history,  \* CrewManager.execution_history
    monitor             \* the WorkflowMonitor of the CrewManager

vars == <<call, ret, output, custom_rules, outputs, workflow_result, active_crews, execution_history, monitor>>

\* the variables of the output pipeline, and those of the orchestrator
pipeline == <<output, custom_rules, outputs, workflow_result>>
orchestrator == <<active_crews, execution_history, monitor>>

\* no WorkflowResult has been constructed
NoWorkflowResult == None

\* WorkflowMonitor.__init__: nothing is being monitored and nothing is recorded
NewMonitor == WorkflowMonitor(TRUE)

NoCall == [op |-> "none"]
\* ret: done (the call has ended), raised and exc (it ended by raising exc),
\* outs (the StructuredOutputs it returned), verdict (the OutputValidation it
\* returned), checked (the custom rules it evaluated), flag (a returned
\* bool), report (a returned dict), text (a returned string), calls (the calls
\* it made to the crew and to the monitor, in order)
NotYet ==
    [done |-> FALSE, raised |-> FALSE, exc |-> NoExc, outs |-> <<>>,
     verdict |-> None, checked |-> <<>>, flag |-> FALSE, report |-> None,
     text |-> None, calls |-> <<>>]
Returned(outs) == [NotYet EXCEPT !.done = TRUE, !.outs = outs]
Raised(e, outs) == [NotYet EXCEPT !.done = TRUE, !.raised = TRUE, !.exc = e, !.outs = outs]
\* what the caller sees of a call r = [exc, val] whose value is one output
Outcome(r) == IF r.exc = NoExc THEN Returned(<<r.val>>) ELSE Raised(r.exc, <<>>)
\* the same for a call whose value is a list of outputs
OutcomeList(r) == IF r.exc = NoExc THEN Returned(r.val) ELSE Raised(r.exc, <<>>)
\* the output the caller holds after a call r that replaces held
Held(r, held) == IF r.exc = NoExc THEN r.val ELSE held

\* ---------------------------------------------------- processor: actions
\* The calls of process_agent_output that a caller may make.
AgentCall(c) ==
    \E raw \in RawInputs, prov \in ProvInputs, schema \in SchemaInputs :
        c = [op |-> "process_agent_output", raw |-> raw, prov |-> prov,
             schema |-> schema]

ProcessAgentOutput ==
    /\ call.op = "process_agent_output"
    /\ ~ret.done
    /\ ret' = Outcome(process_agent_output(call.raw, call.prov.agent_id,
                    call.prov.agent_role, call.prov.task_id, call.prov.task_name,
                    call.prov.workflow_id, call.prov.execution_time, call.schema))
    /\ output' = Held(process_agent_output(call.raw, call.prov.agent_id,
                    call.prov.agent_role, call.prov.task_id, call.prov.task_name,
                    call.prov.workflow_id, call.prov.execution_time, call.schema),
                    output)
    /\ UNCHANGED <<call, custom_rules, outputs>>
    /\ UNCHANGED <<workflow_result, active_crews, execution_history, monitor>>

\* A crew result is one of
\*   [shape |-> "tasks_output", items |-> a sequence of task outputs]: an
\*       object with a tasks_output attribute; a task output has or lacks
\*       the attribute raw, and its attribute agent is "absent", a mapping
\*       with a role ("dict_role"), a mapping without ("dict_norole"), a
\*       mapping whose role is None ("dict_none"), or a str ("str");
\*   [shape |-> "list", items |-> a sequence of raw inputs];
\*   [shape |-> "single", raw |-> a raw input that is no list].
CrewRaws ==
    {[BaseRaw EXCEPT !.md = TRUE], [BaseRaw EXCEPT !.json = "scalar"],
     [BaseRaw EXCEPT !.cls = "dict"]}

TaskOutputs ==
    [has_raw : {TRUE}, raw : CrewRaws,
     agent : {"absent", "dict_role", "dict_norole", "dict_none", "str"}]
    \cup [has_raw : {FALSE}, raw : {BaseRaw}, agent : {"absent"}]

SeqsUpTo(S, n) == UNION {[1..k -> S] : k \in 0..n}

CrewResults ==
    {[shape |-> "tasks_output", items |-> it, raw |-> BaseRaw] :
        it \in SeqsUpTo(TaskOutputs, MaxItems)}
    \cup {[shape |-> "list", items |-> it, raw |-> BaseRaw] :
            it \in SeqsUpTo(CrewRaws, MaxItems)}
    \cup {[shape |-> "single", items |-> <<>>, raw |-> r] : r \in CrewRaws}

CrewCall(c) ==
    \E cr \in CrewResults, w \in {PyNone, "wf_1", NotAStr} :
        c = [op |-> "process_crew_output", crew_result |-> cr, workflow_id |-> w]

\* f"agent_{i}", f"task_{i}"
AgentId(i) == "agent_" \o ToString(i)
TaskId(i) == "task_" \o ToString(i)

\* getattr(task_output, 'agent', {}).get('role', 'Unknown')
task_agent_role(task_output) ==
    IF task_output.agent = "str"
    THEN Raise("AttributeError: 'str' object has no attribute 'get'")
    ELSE IF task_output.agent = "dict_role" THEN Ok("Researcher")
    ELSE IF task_output.agent = "dict_none" THEN Ok(PyNone)
    ELSE Ok("Unknown")

\* lines 494-500: the arguments of the call for one task output
task_call_args(task_output) ==
    IF ~task_output.has_raw
    THEN Raise("AttributeError: object has no attribute 'raw'")
    ELSE task_agent_role(task_output)

\* the list a for loop has built when it ends: one result per item up to the
\* first item whose step raised
built_until(results, stop) ==
    [exc |-> IF stop > Len(results) THEN NoExc ELSE results[stop].exc,
     val |-> [i \in 1..(stop - 1) |-> results[i].val]]

\* the first item whose step raises (one past the end if none does)
first_raise(results) ==
    IF \A i \in DOMAIN results : results[i].exc = NoExc THEN Len(results) + 1
    ELSE CHOOSE i \in DOMAIN results :
            /\ results[i].exc # NoExc
            /\ \A j \in 1..(i - 1) : results[j].exc = NoExc

loop_until_raise(results) == built_until(results, first_raise(results))

\* lines 494-501: one iteration over a task output (i counts from 0)
crew_tasks_call(task_output, args, i, workflow_id) ==
    IF args.exc # NoExc THEN Raise(args.exc)
    ELSE process_agent_output(task_output.raw, AgentId(i), args.val,
                              TaskId(i), PyNone, workflow_id, None, None)

crew_tasks_step(task_output, i, workflow_id) ==
    crew_tasks_call(task_output, task_call_args(task_output), i, workflow_id)

\* lines 493-501
crew_tasks_loop(items, workflow_id) ==
    loop_until_raise([i \in DOMAIN items |->
                        crew_tasks_step(items[i], i - 1, workflow_id)])

\* lines 505-513
crew_list_loop(items, workflow_id) ==
    loop_until_raise([i \in DOMAIN items |->
                        process_agent_output(items[i], AgentId(i - 1), "Unknown",
                                             TaskId(i - 1), PyNone, workflow_id,
                                             None, None)])

\* lines 517-523
crew_single(crew_result, workflow_id) ==
    loop_until_raise(<<process_agent_output(crew_result.raw, "agent_0", "Unknown",
                                            PyNone, PyNone, workflow_id, None, None)>>)

\* str(crew_result)
StrCrew == [kind |-> "str", via |-> "str(crew_result)", raw |-> BaseRaw]

\* lines 537-539: the error output is appended to the list built so far
append_error_output(structured_outputs, metadata, e) ==
    IF metadata.exc # NoExc THEN Raise(metadata.exc)
    ELSE Ok(Append(structured_outputs,
                   StructuredOutput(StrCrew, "text", "failed", metadata.val,
                                    None, None, {}, {}, <<>>, Some(e)).val))

\* lines 525-539: the except block of process_crew_output
crew_except(workflow_id, e, structured_outputs) ==
    append_error_output(structured_outputs,
                        OutputMetadata("unknown", "Unknown", PyNone, PyNone,
                                       workflow_id, None, None, None, None),
                        e)

\* lines 490-523: the body of the try block of process_crew_output
crew_try(crew_result, workflow_id) ==
    IF crew_result.shape = "tasks_output"
    THEN crew_tasks_loop(crew_result.items, workflow_id)
    ELSE IF crew_result.shape = "list"
    THEN crew_list_loop(crew_result.items, workflow_id)
    ELSE crew_single(crew_result, workflow_id)

crew_try_except(body, workflow_id) ==
    IF body.exc = NoExc THEN Ok(body.val)
    ELSE crew_except(workflow_id, body.exc, body.val)

\* OutputProcessor.process_crew_output
process_crew_output(crew_result, workflow_id) ==
    crew_try_except(crew_try(crew_result, workflow_id), workflow_id)

ProcessCrewOutput ==
    /\ call.op = "process_crew_output"
    /\ ~ret.done
    /\ ret' = OutcomeList(process_crew_output(call.crew_result, call.workflow_id))
    /\ UNCHANGED <<call, output, custom_rules, outputs>>
    /\ UNCHANGED <<workflow_result, active_crews, execution_history, monitor>>

ProcInit ==
    /\ (AgentCall(call) \/ CrewCall(call))
    /\ ret = NotYet
    /\ output = NoOutput
    /\ custom_rules = <<>>
    /\ outputs = <<>>
    /\ workflow_result = NoWorkflowResult
    /\ active_crews = <<>>
    /\ execution_history = <<>>
    /\ monitor = NewMonitor

ProcNext == ProcessAgentOutput \/ ProcessCrewOutput

SpecProcessor == ProcInit /\ [][ProcNext]_vars

\* ------------------------------------------------- processor: properties
AgentDone == call.op = "process_agent_output" /\ ret.done
CrewDone == call.op = "process_crew_output" /\ ret.done

\* what the try block of the call in progress did
CallTry ==
    process_try(call.raw, call.prov.agent_id, call.prov.agent_role,
                call.prov.task_id, call.prov.task_name, call.prov.workflow_id,
                call.prov.execution_time, call.schema)

\* C1: for every raw input and every provenance, process_agent_output
\* returns one StructuredOutput and never raises; when a step of its try
\* block raises, the output returned is failed, of type text, holds the
\* stringified raw input and carries the exception message as error_details.
ProcessAgentOutputNeverRaises ==
    AgentDone =>
        /\ ~ret.raised
        /\ Len(ret.outs) = 1
        /\ CallTry.exc # NoExc =>
              /\ ret.outs[1].status = "failed"
              /\ ret.outs[1].output_type = "text"
              /\ ret.outs[1].content = Str(call.raw)
              /\ ret.outs[1].error_details = Some(CallTry.exc)

\* a text in which a Markdown pattern matches has been processed without a
\* failure
MarkdownTextProcessed ==
    /\ AgentDone /\ ~ret.raised /\ CallTry.exc = NoExc
    /\ call.raw.cls = "str" /\ call.raw.md

JsonTextReturnedAsParsed ==
    (/\ AgentDone /\ WellTyped(call.prov) /\ call.schema = None
     /\ call.raw.cls = "str" /\ call.raw.json \in {"dict", "list", "scalar", "str"}) =>
        /\ ~ret.raised
        /\ ret.outs[1].output_type = "json"
        /\ ret.outs[1].content = Content(call.raw.json, "json", call.raw)
        /\ ret.outs[1].status = "success"

\* C27: source_count of a created output is absent or a positive integer,
\* never 0; for a mapping whose sources field is a sequence it is the length
\* of the sequence when that is not zero and absent when the sequence is empty.
SourceCountAbsentOrPositive ==
    (AgentDone /\ ~ret.raised) =>
        /\ ret.outs[1].metadata.source_count # Some(0)
        /\ (ret.outs[1].status # "failed" /\ call.raw.cls = "dict" /\ call.raw.srcField = "list") =>
              ret.outs[1].metadata.source_count =
                  IF call.raw.srcLen > 0 THEN Some(call.raw.srcLen) ELSE None

\* C7: with a schema and no failure, the schema's verdict is attached; an
\* invalid verdict makes the status partial and adds exactly one note citing
\* the number of errors; a valid one leaves the status success and adds no
\* note. Without a schema the status is success and validation is absent.
SchemaVerdictAttached ==
    (AgentDone /\ ~ret.raised /\ CallTry.exc = NoExc) =>
        IF call.schema = None
        THEN /\ ret.outs[1].status = "success"
             /\ ret.outs[1].validation = None
             /\ ret.outs[1].processing_notes = <<>>
        ELSE /\ ret.outs[1].validation =
                  Some(schema_validate_output(Val(call.schema), ret.outs[1]).val)
             /\ IF Val(ret.outs[1].validation).is_valid
                THEN /\ ret.outs[1].status = "success"
                     /\ ret.outs[1].processing_notes = <<>>
                ELSE /\ ret.outs[1].status = "partial"
                     /\ ret.outs[1].processing_notes =
                          <<<<"Validation failed with errors",
                              Len(Val(ret.outs[1].validation).errors)>>>>
                     /\ Len(Val(ret.outs[1].validation).errors) > 0

\* a call with a schema whose verdict is invalid has returned
SchemaVerdictInvalidReached ==
    /\ AgentDone /\ ~ret.raised /\ call.schema # None
    /\ ret.outs[1].status = "partial"
    /\ ~Val(ret.outs[1].validation).is_valid
    /\ Len(ret.outs[1].processing_notes) = 1

\* C18: against a schema that sets min_word_count, required_sources and
\* required_sections, the verdict is valid only if the output has at least the
\* minimum of words, at least the required number of sources and every
\* required section.
SchemaValidOnlyIfRequirementsMet ==
    (/\ AgentDone /\ ~ret.raised /\ CallTry.exc = NoExc
     /\ call.schema # None
     /\ Val(call.schema).min_word_count # None
     /\ Val(call.schema).required_sources # None
     /\ Val(call.schema).required_sections # <<>>
     /\ Val(ret.outs[1].validation).is_valid)
    => /\ OrZero(ret.outs[1].metadata.word_count) >= Val(Val(call.schema).min_word_count)
       /\ OrZero(ret.outs[1].metadata.source_count) >= Val(Val(call.schema).required_sources)
       /\ ret.outs[1].sections # None
       /\ \A k \in DOMAIN Val(call.schema).required_sections :
              Val(call.schema).required_sections[k] \in DOMAIN Val(ret.outs[1].sections)

\* the number of items of a crew result
ItemCount(crew_result) ==
    IF crew_result.shape = "single" THEN 1 ELSE Len(crew_result.items)

\* C8: process_crew_output returns exactly one output per item, in input
\* order (one for a single result); a failing item yields a failed output at
\* its position and the later items are still processed.
CrewOneOutputPerItem ==
    CrewDone =>
        /\ ~ret.raised
        /\ Len(ret.outs) = ItemCount(call.crew_result)
        /\ \A i \in DOMAIN ret.outs :
              ret.outs[i].metadata.agent_id = AgentId(i - 1)

\* ---------------------------------------------------- validator: actions
\* The custom rules callers write: a rule that passes, one of the same name
\* that fails as a warning, one named like a built-in rule whose predicate
\* raises, and one with a negative weight.
ValRules ==
    {ValidationRule("business_rule", "returns_true", "Business rule failed", FALSE, 2),
     ValidationRule("business_rule", "returns_false", "Business rule failed", TRUE, 3),
     ValidationRule("content_exists", "raises", "Custom content check failed",
                    FALSE, 2),
     ValidationRule("discount", "returns_false", "Discount rule failed", TRUE, -2)}

RuleNames == {r.name : r \in ValRules} \cup {"unknown_rule"}

\* The texts and the dict whose outputs are validated; the dict, {"summary": 42},
\* has no string value, so _calculate_word_count counts 0 words in it while
\* str(content) splits into 2.
ValRaws ==
    {BaseRaw,
     [BaseRaw EXCEPT !.blank = TRUE, !.chars = 0, !.words = 0, !.actual = 0],
     [BaseRaw EXCEPT !.md = TRUE, !.vmd = TRUE, !.words = 1, !.actual = 2,
                     !.secs = {"summary"}],
     [BaseRaw EXCEPT !.suspicious = TRUE, !.conf = Some(9)],
     [BaseRaw EXCEPT !.json = "str", !.chars = 2, !.words = 1, !.actual = 1],
     [BaseRaw EXCEPT !.json = "scalar", !.chars = 2, !.words = 1, !.actual = 1],
     [BaseRaw EXCEPT !.cls = "dict", !.secs = {"summary"}, !.words = 0]}

ValSchema ==
    [min_word_count |-> Some(2), max_word_count |-> None, min_confidence |-> 7,
     required_sources |-> None, required_sections |-> <<"summary">>]

ValCall(c) ==
    \E raw \in ValRaws, agent_role \in {"Researcher", ""},
       schema \in {None, Some(ValSchema)} :
        /\ agent_role = "" => (raw = BaseRaw /\ schema = None)
        /\ schema # None => raw.md
        /\ c = [op |-> "process_agent_output", raw |-> raw,
                prov |-> [agent_id |-> "agent_0", agent_role |-> agent_role,
                          task_id |-> "task_0", task_name |-> PyNone,
                          workflow_id |-> "wf_1", execution_time |-> None],
                schema |-> schema]

\* The custom_rules argument of validate_output: not given, or a list.
SuppliedLists ==
    {None, Some(<<>>)}
    \cup {Some(<<r>>) : r \in ValRules}

VerdictOutcome(r, checked) ==
    IF r.exc = NoExc
    THEN [Returned(<<>>) EXCEPT !.verdict = Some(r.val), !.checked = checked]
    ELSE [Raised(r.exc, <<>>) EXCEPT !.checked = checked]

AddCustomRule ==
    /\ ret.done /\ output # NoOutput
    /\ Len(custom_rules) < MaxRules
    /\ \E rule \in ValRules :
        /\ call' = [op |-> "add_custom_rule", rule |-> rule]
        /\ custom_rules' = add_custom_rule(custom_rules, rule)
    /\ ret' = Returned(<<>>)
    /\ UNCHANGED <<output, outputs>>
    /\ UNCHANGED <<workflow_result, active_crews, execution_history, monitor>>

RemoveCustomRule ==
    /\ ret.done /\ output # NoOutput
    /\ \E rule_name \in RuleNames :
        /\ call' = [op |-> "remove_custom_rule", rule_name |-> rule_name]
        /\ custom_rules' = remove_custom_rule(custom_rules, rule_name).rules
        /\ ret' = [Returned(<<>>) EXCEPT
                     !.flag = remove_custom_rule(custom_rules, rule_name).found]
    /\ UNCHANGED <<output, outputs>>
    /\ UNCHANGED <<workflow_result, active_crews, execution_history, monitor>>

ValidateOutput ==
    /\ ret.done /\ output # NoOutput
    /\ \E schema \in {None, Some(ValSchema)}, supplied \in SuppliedLists,
          strict_mode \in BOOLEAN :
        /\ call' = [op |-> "validate_output", schema |-> schema,
                    custom_rules |-> supplied, strict_mode |-> strict_mode]
        /\ ret' = VerdictOutcome(
                    validate_output(custom_rules, output, schema, supplied, strict_mode),
                    rules_to_check(supplied, custom_rules))
        /\ output' = output_after_validate(output,
                        validate_output(custom_rules, output, schema, supplied,
                                        strict_mode))
    /\ UNCHANGED <<custom_rules, outputs>>
    /\ UNCHANGED <<workflow_result, active_crews, execution_history, monitor>>

ValInit ==
    /\ ValCall(call)
    /\ ret = NotYet
    /\ output = NoOutput
    /\ custom_rules = <<>>
    /\ outputs = <<>>
    /\ workflow_result = NoWorkflowResult
    /\ active_crews = <<>>
    /\ execution_history = <<>>
    /\ monitor = NewMonitor

ValNext == ProcessAgentOutput \/ AddCustomRule \/ RemoveCustomRule \/ ValidateOutput

SpecValidator == ValInit /\ [][ValNext]_vars

\* ------------------------------------------------- validator: properties
ValidateDone == call.op = "validate_output" /\ ret.done

\* the built-in rules, then the custom rules the call evaluated
EvaluatedRules == built_in_rules \o ret.checked

\* the rule's predicate returns true on the output validated
Passes(rule) ==
    validator_func(rule, output).exc = NoExc /\ validator_func(rule, output).val

\* the one message a failing rule adds
ExpectedMessage(rule) ==
    rule.name \o ": " \o
        (IF validator_func(rule, output).exc # NoExc
         THEN "Validation error in " \o rule.name \o ": "
                \o validator_func(rule, output).exc
         ELSE rule.error_message)

GoesToWarnings(rule) == rule.warning_only /\ ~call.strict_mode

Count(seq, m) == Cardinality({k \in DOMAIN seq : seq[k] = m})
Range(seq) == {seq[k] : k \in DOMAIN seq}

\* the failing evaluations that add message m to the errors (to_errors) or to
\* the warnings
FailingWith(m, to_errors) ==
    {i \in DOMAIN EvaluatedRules :
        /\ ~Passes(EvaluatedRules[i])
        /\ ExpectedMessage(EvaluatedRules[i]) = m
        /\ GoesToWarnings(EvaluatedRules[i]) = ~to_errors}

\* Beyond the schema's messages, the verdict holds exactly one message per
\* failing evaluation, in the warnings when the rule is warning_only and
\* strict_mode is off and in the errors otherwise, and none for a passing one.
OneMessagePerFailure ==
    \A m \in Range(Val(ret.verdict).errors) \cup Range(Val(ret.verdict).warnings)
             \cup {ExpectedMessage(EvaluatedRules[i]) : i \in DOMAIN EvaluatedRules} :
        /\ Count(Val(ret.verdict).errors, m)
             = Count(schema_part(call.schema, output).errors, m)
               + Cardinality(FailingWith(m, TRUE))
        /\ Count(Val(ret.verdict).warnings, m)
             = Count(schema_part(call.schema, output).warnings, m)
               + Cardinality(FailingWith(m, FALSE))

\* the only exception validate_output ends with is the score's, never a
\* predicate's
NoPredicateExceptionEscapes ==
    ret.raised => ret.exc = "ValidationError: validation_score"

WordCountRulePassesIffWithinTenth ==
    (ValidateDone /\ ~ret.raised /\ output.metadata.word_count # None) =>
        /\ Val(ret.verdict).requirements_met["word_count_accuracy"]
             <=> (10 * AbsDiff(output.content.raw.actual, Val(output.metadata.word_count))
                    <= Max2(output.content.raw.actual, 1))
        /\ ~call.strict_mode =>
             (Val(ret.verdict).requirements_met["word_count_accuracy"]
                <=> Count(Val(ret.verdict).warnings,
                          "word_count_accuracy: Word count metadata significantly differs from actual content") = 0)

\* C4: with a custom_rules list supplied (of any length, the empty list
\* included) the custom rules evaluated are exactly that list; with none
\* supplied they are the stored rules.
SuppliedRulesOverrideStored ==
    ValidateDone =>
        ret.checked = IF call.custom_rules # None THEN Val(call.custom_rules)
                      ELSE custom_rules

\* C5: validate_output returns a verdict whose score is the weight of the met
\* requirements over the weight of all requirements (a requirement's weight
\* being that of the first rule of its name among the built-in rules followed
\* by the custom rules used, 1.0 if none), and the score lies in [0,1].
ScoreIsWeightedFraction ==
    ValidateDone =>
        /\ ~ret.raised
        /\ Val(ret.verdict).validation_score[1]
             * sum_weights(DOMAIN Val(ret.verdict).requirements_met, EvaluatedRules)
           = Val(ret.verdict).validation_score[2]
             * sum_weights({n \in DOMAIN Val(ret.verdict).requirements_met :
                              Val(ret.verdict).requirements_met[n]}, EvaluatedRules)
        /\ sum_weights(DOMAIN Val(ret.verdict).requirements_met, EvaluatedRules) # 0
        /\ Val(ret.verdict).validation_score[2] > 0
        /\ Val(ret.verdict).validation_score[1] >= 0
        /\ Val(ret.verdict).validation_score[1] <= Val(ret.verdict).validation_score[2]

\* C6 (as amended): output.validation is set when process_agent_output creates
\* the output (the schema's verdict, absent without a schema) and no later
\* call changes it: validate_output returns its verdict without attaching it.
ValidationSetAtCreationOnly ==
    [][IF call'.op = "process_agent_output"
       THEN output'.validation =
              IF call'.schema # None /\ output'.status # "failed"
              THEN Some(schema_validate_output(Val(call'.schema), output').val)
              ELSE None
       ELSE output'.validation = output.validation]_vars

\* C6 (as stated): after a validation the validation attached to the output
\* is the verdict of that most recent validation.
LatestVerdictAttached ==
    (ValidateDone /\ ~ret.raised) => output.validation = ret.verdict

\* validate_output has returned a verdict that is not the one attached
VerdictReturnedNotAttached ==
    /\ ValidateDone /\ ~ret.raised
    /\ output.validation # None
    /\ output.validation # ret.verdict

\* --------------------------------------------------- aggregator: actions
Strategies == {"merge", "summary", "best", "vote"}

ConsolidateCall(c) ==
    \E consolidation_strategy \in Strategies :
        c = [op |-> "create_consolidated_output",
             consolidation_strategy |-> consolidation_strategy,
             target_agent_role |-> "Consolidated Agent"]

CreateConsolidatedOutput ==
    /\ call.op = "create_consolidated_output" /\ ~ret.done
    /\ ret' = Outcome(create_consolidated_output(outputs, call.consolidation_strategy,
                                                 call.target_agent_role))
    /\ UNCHANGED <<call, output, custom_rules, outputs>>
    /\ UNCHANGED <<workflow_result, active_crews, execution_history, monitor>>

\* the calls of generate_comparison_report
CriteriaInputs ==
    {None, Some(<<>>), Some(<<"word_count">>), Some(<<"validation_score", "quality">>)}

CompareCall(c) ==
    \E comparison_criteria \in CriteriaInputs :
        c = [op |-> "generate_comparison_report",
             comparison_criteria |-> comparison_criteria]

GenerateComparisonReport ==
    /\ call.op = "generate_comparison_report" /\ ~ret.done
    /\ ret' = [Returned(<<>>) EXCEPT
                 !.report = Some(generate_comparison_report(outputs,
                                                            call.comparison_criteria))]
    /\ UNCHANGED <<call, output, custom_rules, outputs>>
    /\ UNCHANGED <<workflow_result, active_crews, execution_history, monitor>>

AggInit ==
    /\ (ConsolidateCall(call) \/ CompareCall(call))
    /\ outputs \in SeqsUpTo(AggOutputs, MaxOutputs)
    /\ ret = NotYet
    /\ output = NoOutput
    /\ custom_rules = <<>>
    /\ workflow_result = NoWorkflowResult
    /\ active_crews = <<>>
    /\ execution_history = <<>>
    /\ monitor = NewMonitor

AggNext == CreateConsolidatedOutput \/ GenerateComparisonReport

SpecAggregator == AggInit /\ [][AggNext]_vars

\* ------------------------------------------------ aggregator: properties
ConsolidateDone(strategy) ==
    /\ call.op = "create_consolidated_output" /\ ret.done
    /\ call.consolidation_strategy = strategy

\* C2: every output the pipeline produces that has status failed has its
\* error_details set and non-empty; here for the outputs returned by
\* create_consolidated_output from inputs that themselves satisfy this.
FailedOutputsCarryErrorDetails ==
    \A i \in DOMAIN ret.outs :
        ret.outs[i].status = "failed" =>
            /\ ret.outs[i].error_details # None
            /\ Val(ret.outs[i].error_details) # ""

Statuses == {outputs[i].status : i \in DOMAIN outputs}

\* C9: the status of the merged output is the worst status among the inputs:
\* failed if any input is failed, otherwise partial if any input is partial,
\* whatever other statuses (pending included) are present and in any order.
MergeStatusIsWorstPresent ==
    (ConsolidateDone("merge") /\ outputs # <<>>) =>
        /\ ~ret.raised
        /\ "failed" \in Statuses => ret.outs[1].status = "failed"
        /\ ("failed" \notin Statuses /\ "partial" \in Statuses)
              => ret.outs[1].status = "partial"

\* the composite score of the claim, in thousandths times the denominator of
\* the validation score, and that denominator
CompositeScore(o) ==
    LET d == IF o.validation = None THEN 1 ELSE Val(o.validation).validation_score[2]
        v == IF o.validation = None THEN 0 ELSE Val(o.validation).validation_score[1]
        w == IF o.metadata.word_count = None THEN 0 ELSE Val(o.metadata.word_count)
        c == IF o.metadata.confidence_score = None THEN 0
             ELSE Val(o.metadata.confidence_score)
        n == IF o.sections = None THEN 0 ELSE Cardinality(DOMAIN Val(o.sections))
    IN <<d * (3000 * (IF o.status = "success" THEN 1 ELSE 0)
              + 1000 * (IF o.status = "partial" THEN 1 ELSE 0)
              + (IF w < 2000 THEN w ELSE 2000) + 100 * c + 100 * n)
           + 2000 * v, d>>

Below(a, b) == a[1] * b[2] < b[1] * a[2]

\* o is the clone of the selected output s
IsCloneOf(o, s) ==
    /\ o.content = s.content /\ o.output_type = s.output_type
    /\ o.status = s.status /\ o.sections = s.sections
    /\ o.tags = s.tags /\ o.keywords = s.keywords
    /\ o.validation = s.validation
    /\ o.metadata.agent_role = call.target_agent_role
    /\ o.metadata.agent_id = "best_selected"
    /\ Len(o.processing_notes) = Len(s.processing_notes) + 1
    /\ SubSeq(o.processing_notes, 1, Len(s.processing_notes)) = s.processing_notes
    /\ o.processing_notes[Len(o.processing_notes)]
         = <<"Selected as best from outputs", Len(outputs)>>

\* C10: strategy best returns a clone of the earliest input whose composite
\* score is maximal; the clone keeps content, type, status, sections, tags,
\* keywords and validation, carries the target role and the agent id
\* best_selected, and its notes are the selected output's notes followed by
\* one selection note.
BestIsEarliestMaximal ==
    (ConsolidateDone("best") /\ outputs # <<>>) =>
        /\ ~ret.raised
        /\ Len(ret.outs) = 1
        /\ \E k \in DOMAIN outputs :
            /\ \A j \in DOMAIN outputs :
                  /\ ~Below(CompositeScore(outputs[k]), CompositeScore(outputs[j]))
                  /\ j < k => Below(CompositeScore(outputs[j]), CompositeScore(outputs[k]))
            /\ IsCloneOf(ret.outs[1], outputs[k])

\* two different outputs tie for the greatest score and the earlier one was
\* cloned
BestTieBrokenByOrder ==
    /\ ConsolidateDone("best") /\ ~ret.raised
    /\ \E i, j \in DOMAIN outputs :
        /\ i < j
        /\ outputs[i].content # outputs[j].content
        /\ ~Below(CompositeScore(outputs[i]), CompositeScore(outputs[j]))
        /\ ~Below(CompositeScore(outputs[j]), CompositeScore(outputs[i]))
        /\ \A k \in DOMAIN outputs :
              ~Below(CompositeScore(outputs[i]), CompositeScore(outputs[k]))
        /\ ret.outs[1].content = outputs[i].content

CompareDone == call.op = "generate_comparison_report" /\ ret.done

Ranking == Val(ret.report).ranking

\* the entry shows the agent, status, word count and validation score of o
EntryOf(entry, o) ==
    /\ entry.agent = o.metadata.agent_role
    /\ entry.status = o.status
    /\ entry.word_count = o.metadata.word_count
    /\ entry.validation_score =
         IF o.validation = None THEN None
         ELSE Some(Val(o.validation).validation_score)

Bijections(S) == {p \in [S -> S] : \A a, b \in S : p[a] = p[b] => a = b}

\* C11: for N >= 2 outputs the ranking has exactly one entry per output, is
\* ordered by non-increasing score with entries of equal score in the
\* original relative order of their outputs, and the ranks read 1..N.
RankingIsStableDescending ==
    (CompareDone /\ Len(outputs) >= 2) =>
        /\ ~ret.raised
        /\ "ranking" \in DOMAIN Val(ret.report)
        /\ Len(Ranking) = Len(outputs)
        /\ \A k \in DOMAIN Ranking : Ranking[k].rank = k
        /\ \A k, l \in DOMAIN Ranking : k < l => Ranking[k].score >= Ranking[l].score
        /\ \E p \in Bijections(DOMAIN outputs) :
              /\ \A k \in DOMAIN Ranking : EntryOf(Ranking[k], outputs[p[k]])
              /\ \A k, l \in DOMAIN Ranking :
                    (k < l /\ Ranking[k].score = Ranking[l].score) => p[k] < p[l]

\* a ranking of three outputs in which two entries of equal score show
\* different word counts and a third entry has another score
RankingWithTieReached ==
    /\ CompareDone /\ Len(outputs) = 3
    /\ \E k, l, m \in DOMAIN Ranking :
          /\ k < l
          /\ Ranking[k].score = Ranking[l].score
          /\ Ranking[k].word_count # Ranking[l].word_count
          /\ Ranking[m].score # Ranking[k].score

\* C24: every section of every input is in the merged sections under its
\* prefixed key with its original content: none is overwritten or lost, also
\* when inputs share an agent role.
MergedSectionsKeepEveryInput ==
    (ConsolidateDone("merge") /\ ~ret.raised) =>
        \A i \in DOMAIN outputs :
            outputs[i].sections # None =>
                \A n \in DOMAIN Val(outputs[i].sections) :
                    /\ ret.outs[1].sections # None
                    /\ prefixed_section(outputs[i].metadata.agent_role, n) \in DOMAIN Val(ret.outs[1].sections)
                    /\ Val(ret.outs[1].sections)[prefixed_section(outputs[i].metadata.agent_role, n)] = Val(outputs[i].sections)[n]

\* C19: every consolidated output has at most 10 tags and at most 15 keywords
\* (as every output of the processor has).
ConsolidatedTagsCapped ==
    \A strategy \in {"merge", "summarize", "best"} :
        (ConsolidateDone(strategy) /\ ~ret.raised) =>
            /\ Cardinality(ret.outs[1].tags) <= 10
            /\ Cardinality(ret.outs[1].keywords) <= 15

\* C12: create_consolidated_output with an empty list raises ValueError for
\* every strategy name and returns no output; generate_comparison_report
\* with fewer than two outputs returns an error-shaped value without a
\* ranking and does not raise.
PreconditionFailuresReported ==
    /\ (call.op = "create_consolidated_output" /\ ret.done /\ outputs = <<>>) =>
          /\ ret.raised
          /\ ret.exc = "ValueError: No outputs provided for consolidation"
          /\ ret.outs = <<>>
    /\ (CompareDone /\ Len(outputs) < 2) =>
          /\ ~ret.raised
          /\ ret.report # None
          /\ "error" \in DOMAIN Val(ret.report)
          /\ "ranking" \notin DOMAIN Val(ret.report)

\* a precondition failure has been reported: a consolidation of no outputs
\* under an unknown strategy name, or a comparison of a single output
PreconditionFailureReached ==
    \/ /\ call.op = "create_consolidated_output" /\ ret.done /\ outputs = <<>>
       /\ call.consolidation_strategy \notin {"merge", "summary", "best"}
       /\ ret.raised
    \/ /\ CompareDone /\ Len(outputs) = 1 /\ "error" \in DOMAIN Val(ret.report)

\* ------------------------------------------- readers: actions and spec
\* The operations that are handed StructuredOutputs and only read them: a
\* caller holds a list of outputs and calls, in any order, the validator, the
\* formatter, the aggregator and the properties of the WorkflowResult built
\* over the list.
ListedOutputs ==
    {[AggOutput("success", "Researcher", 2, Some(600), None, Some(<<19, 20>>), {}, {"ai"}, None)
        EXCEPT !.validation = Some([is_valid |-> FALSE, validation_score |-> <<19, 20>>,
                                    errors |-> <<"Output status is inconsistent with content">>,
                                    warnings |-> <<>>, requirements_met |-> EmptyMap])],
     [AggOutput("partial", "Analyst", 2, Some(100), Some(7), None, {"summary"}, {}, None)
        EXCEPT !.output_type = "json",
               !.content = Content("dict", "asis",
                                   [BaseRaw EXCEPT !.cls = "dict", !.serializable = FALSE])],
     AggOutput("failed", "Researcher", 2, None, Some(0), None, {"summary"}, {}, Some("boom"))}

Formats ==
    {"json", "JSON", "html", "markdown", "csv", "xml", "template", "summary", "pdf", NotAStr}

OptionInputs ==
    {None, Some(DictOptions([include_metadata |-> FALSE])), Some(NotADict)}

FormatArguments(c) ==
    \E target_format \in Formats,
       template_name \in {None, Some("report.j2"), Some("missing.j2")},
       custom_options \in OptionInputs :
        /\ target_format # "template" => template_name = None
        /\ c = [target_format |-> target_format, template_name |-> template_name,
                custom_options |-> custom_options]

\* the calls a caller can make in the current state
ReaderCall(c) ==
    \/ ConsolidateCall(c)
    \/ CompareCall(c)
    \/ \E i \in DOMAIN outputs, strict_mode \in BOOLEAN :
        c = [op |-> "validate_output", index |-> i, strict_mode |-> strict_mode]
    \/ \E i \in DOMAIN outputs, a \in {x \in [target_format : Formats, template_name : {None, Some("report.j2"), Some("missing.j2")}, custom_options : OptionInputs] : FormatArguments(x)} :
        c = [op |-> "format_output", index |-> i, args |-> a]
    \/ \E aggregate \in BOOLEAN, a \in {x \in [target_format : Formats, template_name : {None, Some("report.j2"), Some("missing.j2")}, custom_options : OptionInputs] : FormatArguments(x)} :
        c = [op |-> "format_multiple_outputs", aggregate |-> aggregate, args |-> a]
    \/ /\ workflow_result = None
       /\ c = [op |-> "aggregate_workflow_results", workflow_id |-> "wf_1",
               workflow_name |-> "research", execution_time |-> 10]
    \/ /\ workflow_result # None
       /\ \E name \in {"analytics", "summary", "insights"} :
            /\ Val(workflow_result).computed[name] < MaxAccesses
            /\ c = [op |-> name]

\* the caller makes its next call
NextCall ==
    /\ ret.done
    /\ ReaderCall(call')
    /\ ret' = NotYet
    /\ UNCHANGED pipeline
    /\ UNCHANGED orchestrator

StringOutcome(r) ==
    IF r.exc = NoExc THEN [Returned(<<>>) EXCEPT !.text = Some(r.val)]
    ELSE Raised(r.exc, <<>>)

ValueOutcome(r) ==
    IF r.exc = NoExc THEN [Returned(<<>>) EXCEPT !.report = Some(r.val)]
    ELSE Raised(r.exc, <<>>)

ValidateListedOutput ==
    /\ call.op = "validate_output" /\ ~ret.done
    /\ ret' = VerdictOutcome(validate_output(custom_rules, outputs[call.index], None,
                                             None, call.strict_mode), <<>>)
    /\ outputs' = [outputs EXCEPT ![call.index] =
                     output_after_validate(@, validate_output(custom_rules, @, None,
                                                             None, call.strict_mode))]
    /\ UNCHANGED <<call, output, custom_rules, workflow_result>>
    /\ UNCHANGED orchestrator

FormatOutput ==
    /\ call.op = "format_output" /\ ~ret.done
    /\ ret' = StringOutcome(format_output(outputs[call.index], call.args.target_format,
                                          call.args.template_name,
                                          call.args.custom_options))
    /\ outputs' = outputs_after_formatting(outputs)
    /\ UNCHANGED <<call, output, custom_rules, workflow_result>>
    /\ UNCHANGED orchestrator

FormatMultipleOutputs ==
    /\ call.op = "format_multiple_outputs" /\ ~ret.done
    /\ ret' = StringOutcome(format_multiple_outputs(outputs, call.args.target_format,
                                call.aggregate, call.args.template_name,
                                call.args.custom_options))
    /\ outputs' = outputs_after_formatting(outputs)
    /\ UNCHANGED <<call, output, custom_rules, workflow_result>>
    /\ UNCHANGED orchestrator

AggregateWorkflowResults ==
    /\ call.op = "aggregate_workflow_results" /\ ~ret.done
    /\ workflow_result' = Some(aggregate_workflow_results(outputs, call.workflow_id,
                                   call.workflow_name, call.execution_time))
    /\ ret' = Returned(<<>>)
    /\ UNCHANGED <<call, output, custom_rules, outputs>>
    /\ UNCHANGED orchestrator

AccessAnalytics ==
    /\ call.op = "analytics" /\ ~ret.done
    /\ workflow_result' = Some(after_analytics(Val(workflow_result), outputs))
    /\ ret' = ValueOutcome(property_value(after_analytics(Val(workflow_result), outputs),
                                          "_analytics", "unreachable"))
    /\ UNCHANGED <<call, output, custom_rules, outputs>>
    /\ UNCHANGED orchestrator

AccessSummary ==
    /\ call.op = "summary" /\ ~ret.done
    /\ workflow_result' =
         Some(after_summary(Val(workflow_result),
                            after_analytics(Val(workflow_result), outputs)))
    /\ ret' = ValueOutcome(property_value(
                 after_summary(Val(workflow_result),
                               after_analytics(Val(workflow_result), outputs)),
                 "_summary", "KeyError: 'total_outputs'"))
    /\ UNCHANGED <<call, output, custom_rules, outputs>>
    /\ UNCHANGED orchestrator

AccessInsights ==
    /\ call.op = "insights" /\ ~ret.done
    /\ workflow_result' =
         Some(after_insights(Val(workflow_result),
                             after_analytics(Val(workflow_result), outputs), outputs))
    /\ ret' = ValueOutcome(property_value(
                 after_insights(Val(workflow_result),
                                after_analytics(Val(workflow_result), outputs), outputs),
                 "_insights", "KeyError: 'success_rate'"))
    /\ UNCHANGED <<call, output, custom_rules, outputs>>
    /\ UNCHANGED orchestrator

ReadersInit ==
    /\ outputs \in SeqsUpTo(ListedOutputs, MaxListed)
    /\ workflow_result = NoWorkflowResult
    /\ ReaderCall(call)
    /\ ret = NotYet
    /\ output = NoOutput
    /\ custom_rules = <<>>
    /\ active_crews = <<>>
    /\ execution_history = <<>>
    /\ monitor = NewMonitor

ReadersNext ==
    \/ NextCall
    \/ ValidateListedOutput
    \/ FormatOutput
    \/ FormatMultipleOutputs
    \/ AggregateWorkflowResults
    \/ AccessAnalytics
    \/ AccessSummary
    \/ AccessInsights
    \/ CreateConsolidatedOutput
    \/ GenerateComparisonReport

SpecReaders == ReadersInit /\ [][ReadersNext]_vars

\* ------------------------------------------------- readers: properties
FormatDone == call.op \in {"format_output", "format_multiple_outputs"} /\ ret.done

\* the names format_output dispatches on
SupportedFormats == {"json", "html", "markdown", "csv", "xml", "template", "summary"}

Unsupported(target_format) ==
    target_format # NotAStr /\ lower(target_format).val \notin SupportedFormats

\* the string reports that the format is not supported
UnsupportedMessage(string, target_format) ==
    string = ErrorText("Error formatting output: ", "Unsupported format: " \o target_format)

\* C15 (as amended): format_output and format_multiple_outputs never raise and
\* return a string; for an unsupported format format_output returns the error
\* message, and format_multiple_outputs returns one block per output, each
\* holding that error message - nothing at all for an empty list.
FormatterNeverRaises ==
    FormatDone =>
        /\ ~ret.raised
        /\ ret.text # None
        /\ Unsupported(call.args.target_format) =>
            IF call.op = "format_output"
            THEN UnsupportedMessage(Val(ret.text), call.args.target_format)
            ELSE /\ Val(ret.text).kind = "blocks"
                 /\ Len(Val(ret.text).blocks) = Len(outputs)
                 /\ \A i \in DOMAIN Val(ret.text).blocks :
                        UnsupportedMessage(Val(ret.text).blocks[i], call.args.target_format)

\* the string holds an error message and no rendering
IsErrorMessage(string) ==
    \/ string.kind = "error"
    \/ /\ string.kind = "blocks"
       /\ string.blocks # <<>>
       /\ \A i \in DOMAIN string.blocks : string.blocks[i].kind = "error"

\* C15 (as stated): neither operation raises, both return a string, and for an
\* unsupported format the string is an error message rather than a rendering.
UnsupportedFormatIsAnErrorMessage ==
    FormatDone =>
        /\ ~ret.raised
        /\ ret.text # None
        /\ Unsupported(call.args.target_format) => IsErrorMessage(Val(ret.text))

\* an unsupported format has been reported once for every output of a full
\* list, by a call that asked for one aggregated document
FormattingFailureReturned ==
    /\ FormatDone /\ ~ret.raised
    /\ call.op = "format_multiple_outputs" /\ call.aggregate
    /\ call.args.target_format = "pdf" /\ Len(outputs) = MaxListed
    /\ IsErrorMessage(Val(ret.text))

present_numbers(listed, field) ==
    SelectSeq([i \in DOMAIN listed |-> listed[i].metadata[field]], LAMBDA x : x # None)

OutputsOfRole(role) == SelectSeq(outputs, LAMBDA o : o.metadata.agent_role = role)

\* C25: each per-role mean (word count, execution time) and each aggregate
\* word-count, execution-time and confidence statistic of the analytics is
\* computed over exactly the outputs in which the value is present, a present
\* 0 included; an absent value is left out, not counted as zero.
AnalyticsOverPresentValues ==
    (call.op = "analytics" /\ ret.done /\ ~ret.raised /\ outputs # <<>>) =>
        /\ Val(ret.report).content_metrics.total_words
              = sum_or_zero(present_numbers(outputs, "word_count"))
        /\ Val(ret.report).content_metrics.avg_words_per_output
              = mean_or(present_numbers(outputs, "word_count"), Some(<<0, 1>>))
        /\ Val(ret.report).performance_metrics.avg_task_time
              = mean_or(present_numbers(outputs, "execution_time"), Some(<<0, 1>>))
        /\ Val(ret.report).performance_metrics.avg_confidence
              = mean_or(present_numbers(outputs, "confidence_score"), None)
        /\ \A role \in DOMAIN Val(ret.report).agent_performance :
              /\ Val(ret.report).agent_performance[role].avg_word_count
                    = mean_or(present_numbers(OutputsOfRole(role), "word_count"), None)
              /\ Val(ret.report).agent_performance[role].avg_execution_time
                    = mean_or(present_numbers(OutputsOfRole(role), "execution_time"), None)

\* the two quality insights, each on its own condition
both_quality_insights(quality_metrics) ==
    (IF /\ quality_metrics.avg_validation_score # None
        /\ num_less(Num(9, 10), Val(quality_metrics.avg_validation_score))
     THEN <<"High quality outputs with excellent validation scores">> ELSE <<>>)
    \o (IF quality_metrics.outputs_with_errors > 0
        THEN <<<<quality_metrics.outputs_with_errors, "outputs have validation errors">>>>
        ELSE <<>>)

\* C26: the insights hold the validation-errors insight, with the count,
\* whenever an output carries validation errors, and the high-quality insight
\* whenever the mean validation score exceeds 0.9, each on its own condition.
QualityInsightsIndependent ==
    (call.op = "insights" /\ ret.done /\ ~ret.raised /\ outputs # <<>>) =>
        Val(ret.report) =
            <<success_insight(Val(Val(workflow_result)._analytics).success_rate)>>
            \o volume_insight(Val(Val(workflow_result)._analytics).content_metrics.total_words)
            \o time_insight(Val(Val(workflow_result)._analytics).performance_metrics.total_execution_time)
            \o both_quality_insights(Val(Val(workflow_result)._analytics).quality_metrics)
            \o agent_insight(Val(Val(workflow_result)._analytics).agent_roles, Val(Val(workflow_result)._analytics).agent_performance)
            \o diversity_insight(outputs)

\* C28: over an empty output list analytics returns the error-shaped value
\* and summary and insights return a value without raising, in any order of
\* the accesses.
EmptyResultReadable ==
    (outputs = <<>> /\ call.op \in {"analytics", "summary", "insights"} /\ ret.done) =>
        /\ ~ret.raised
        /\ call.op = "analytics" => ret.report = Some([error |-> "No outputs to analyze"])

\* C17: each of analytics, summary and insights is computed at most once per
\* WorkflowResult, and an access that returns gives the cached value.
ComputedAtMostOnce ==
    workflow_result # None =>
        /\ Val(workflow_result).computed.analytics <= 1
        /\ Val(workflow_result).computed.summary <= 1
        /\ Val(workflow_result).computed.insights <= 1
        /\ (call.op = "analytics" /\ ret.done /\ ~ret.raised) =>
              ret.report = Val(workflow_result)._analytics
        /\ (call.op = "summary" /\ ret.done /\ ~ret.raised) =>
              ret.report = Val(workflow_result)._summary
        /\ (call.op = "insights" /\ ret.done /\ ~ret.raised) =>
              ret.report = Val(workflow_result)._insights

\* ------------------------------------------------------- the orchestrator
\* The manager as one value, and the state after a call that leaves `left`.
Manager == [active_crews |-> active_crews, execution_history |-> execution_history, monitor |-> monitor]

CallOutcome(left) ==
    [(IF left.result.exc = NoExc
      THEN [NotYet EXCEPT !.done = TRUE, !.report = Some(left.result.val)]
      ELSE Raised(left.result.exc, <<>>)) EXCEPT !.calls = left.calls]

\* Workflow names, the clock readings of load_workflow (the wall clock, to the
\* second), and the ids a caller may pass.
\* (one name is a prefix of the other; no part of an id of the model is a
\* proper prefix of another part)
WorkflowNames == {<<"content">>, <<"content", "creation">>}
Stamps == {<<"20240101", "120000">>, <<"20240101", "120001">>}
WorkflowIds == {new_workflow_id(name, stamp) : name \in WorkflowNames, stamp \in Stamps} \cup {<<"unknown">>}
\* what Crew(...) does, and what crew.kickoff does
CrewOutcomes == {Returns("crew"), Exc("ValidationError", "agents")}
KickoffOutcomes == {Returns("report"), Exc("Exception", "Execution failed"), Exc("KeyboardInterrupt", "")}
GivenInputs == {None, Some([topic |-> "AI"])}
Durations == {3}

OrchestratorCall(c) ==
    \/ \E name \in WorkflowNames, stamp \in Stamps, made \in CrewOutcomes :
        c = [op |-> "load_workflow", name |-> name, stamp |-> stamp, made |-> made]
    \/ /\ Len(execution_history) < MaxRuns
       /\ Cardinality(DOMAIN monitor.active_executions) < MaxRuns
       /\ monitor.active_workflows < MaxRuns
       /\ \E workflow_id \in WorkflowIds, given \in GivenInputs, ran \in KickoffOutcomes, execution_time \in Durations :
            c = [op |-> "execute_workflow", workflow_id |-> workflow_id, inputs |-> given,
                 ran |-> ran, execution_time |-> execution_time]
    \/ \E workflow_id \in WorkflowIds :
        c = [op |-> "cleanup_workflow", workflow_id |-> workflow_id]
    \/ \E workflow_name \in {None, Some(<<"">>)} \cup {Some(name) : name \in WorkflowNames} :
        c = [op |-> "get_execution_history", workflow_name |-> workflow_name]

NextOrchestratorCall ==
    /\ ret.done
    /\ OrchestratorCall(call')
    /\ ret' = NotYet
    /\ UNCHANGED pipeline
    /\ UNCHANGED orchestrator

LoadWorkflow ==
    /\ call.op = "load_workflow" /\ ~ret.done
    /\ active_crews' = load_workflow(Manager, call.name, call.stamp, call.made).self.active_crews
    /\ ret' = CallOutcome(load_workflow(Manager, call.name, call.stamp, call.made))
    /\ UNCHANGED <<call, execution_history, monitor>>
    /\ UNCHANGED pipeline

ExecuteWorkflow ==
    /\ call.op = "execute_workflow" /\ ~ret.done
    /\ execution_history' = execute_workflow(Manager, call.workflow_id, call.inputs, call.ran, call.execution_time).self.execution_history
    /\ monitor' = execute_workflow(Manager, call.workflow_id, call.inputs, call.ran, call.execution_time).self.monitor
    /\ ret' = CallOutcome(execute_workflow(Manager, call.workflow_id, call.inputs, call.ran, call.execution_time))
    /\ UNCHANGED <<call, active_crews>>
    /\ UNCHANGED pipeline

CleanupWorkflow ==
    /\ call.op = "cleanup_workflow" /\ ~ret.done
    /\ active_crews' = cleanup_workflow(Manager, call.workflow_id).self.active_crews
    /\ ret' = CallOutcome(cleanup_workflow(Manager, call.workflow_id))
    /\ UNCHANGED <<call, execution_history, monitor>>
    /\ UNCHANGED pipeline

GetExecutionHistory ==
    /\ call.op = "get_execution_history" /\ ~ret.done
    /\ ret' = CallOutcome(get_execution_history(Manager, call.workflow_name))
    /\ UNCHANGED <<call, active_crews, execution_history, monitor>>
    /\ UNCHANGED pipeline

OrchestratorInit ==
    /\ monitor \in {WorkflowMonitor(enable_prometheus) : enable_prometheus \in BOOLEAN}
    /\ active_crews = CrewManager(monitor).active_crews
    /\ execution_history = CrewManager(monitor).execution_history
    /\ OrchestratorCall(call)
    /\ ret = NotYet
    /\ output = NoOutput
    /\ custom_rules = <<>>
    /\ outputs = <<>>
    /\ workflow_result = NoWorkflowResult

OrchestratorNext ==
    \/ NextOrchestratorCall
    \/ LoadWorkflow
    \/ ExecuteWorkflow
    \/ CleanupWorkflow
    \/ GetExecutionHistory

SpecOrchestrator == OrchestratorInit /\ [][OrchestratorNext]_vars

\* --------------------------------------------- the orchestrator: properties
\* the step that is a whole call of execute_workflow
ExecuteStep == call.op = "execute_workflow" /\ ~ret.done /\ ret'.done

\* the history grew by exactly one record, of this call, with this status
OneRecordAppended(status) ==
    /\ Len(execution_history') = Len(execution_history) + 1
    /\ SubSeq(execution_history', 1, Len(execution_history)) = execution_history
    /\ execution_history'[Len(execution_history')].workflow_id = call.workflow_id
    /\ execution_history'[Len(execution_history')].status = status

\* start_execution once, before the run, and end_execution once, after it,
\* with this success flag
MonitoredAround(success) ==
    ret'.calls = <<StartCall(call.workflow_id), KickoffCall(call.workflow_id), EndCall(call.workflow_id, success)>>

UnloadedIdRejected ==
    /\ ret'.raised /\ ret'.exc = "ValueError: Workflow not found"
    /\ ret'.calls = <<>>
    /\ execution_history' = execution_history /\ monitor' = monitor

RunReturnedRecorded ==
    /\ ~ret'.raised
    /\ Val(ret'.report).status = "success"
    /\ OneRecordAppended("success")
    /\ MonitoredAround(TRUE)

RunFailedRecorded ==
    /\ ret'.raised /\ ret'.exc = exc_text(call.ran)
    /\ OneRecordAppended("failed")
    /\ execution_history'[Len(execution_history')].error = call.ran.msg
    /\ MonitoredAround(FALSE)

\* the exception left the call with no record and no end_execution: the id
\* stays among the monitor's active executions
RunInterrupted ==
    /\ ret'.raised /\ ret'.exc = exc_text(call.ran)
    /\ execution_history' = execution_history
    /\ ret'.calls = <<StartCall(call.workflow_id), KickoffCall(call.workflow_id)>>
    /\ call.workflow_id \in DOMAIN monitor'.active_executions

\* C20 (as amended): a call of execute_workflow on a loaded workflow appends
\* exactly one record - success when the run returns, failed with the error
\* text when it raises an exception derived from Exception - and calls
\* start_execution once before the run and end_execution once after it with
\* the matching flag; the exception of a failing run leaves the call; a run
\* ended by an exception outside Exception (KeyboardInterrupt) is started in
\* the monitor but neither recorded nor ended; an id that is not loaded raises
\* ValueError and leaves the history and the monitor untouched.
ExecuteWorkflowRecordsCaughtRuns ==
    [][ExecuteStep =>
        IF call.workflow_id \notin DOMAIN active_crews THEN UnloadedIdRejected
        ELSE IF ~call.ran.raises THEN RunReturnedRecorded
        ELSE IF call.ran.cls \notin NotExceptions THEN RunFailedRecorded
        ELSE RunInterrupted]_vars

\* C20 as stated: every run that raises is recorded as failed and ended in
\* the monitor.
ExecuteWorkflowRecordsEveryRun ==
    [][ExecuteStep =>
        IF call.workflow_id \notin DOMAIN active_crews THEN UnloadedIdRejected
        ELSE IF ~call.ran.raises THEN RunReturnedRecorded
        ELSE RunFailedRecorded]_vars

\* a failing run after a run that returned, both recorded and both ended in
\* the monitor
FailedRunRecorded ==
    /\ call.op = "execute_workflow" /\ ret.done /\ ret.raised
    /\ call.workflow_id \in DOMAIN active_crews
    /\ call.ran.raises /\ call.ran.cls = "Exception"
    /\ Len(execution_history) = 2
    /\ execution_history[1].status = "success"
    /\ execution_history[2].status = "failed"
    /\ Len(monitor.performance_history) = 2
    /\ monitor.active_executions = EmptyMap

\* --------------------------------------------- the history: properties
\* the name a workflow was loaded under: an id built by load_workflow without
\* its two clock parts (an id of another make is taken as the name itself)
name_of_loaded(workflow_id) ==
    IF Len(workflow_id) > 2 THEN SubSeq(workflow_id, 1, Len(workflow_id) - 2) ELSE workflow_id

HistoryDone == call.op = "get_execution_history" /\ ret.done /\ ~ret.raised

\* the records of the workflows loaded under this name, in execution order
RECURSIVE records_of(_, _, _)
records_of(records, name, i) ==
    IF i > Len(records) THEN <<>>
    ELSE (IF name_of_loaded(records[i].workflow_id) = name THEN <<records[i]>> ELSE <<>>) \o records_of(records, name, i + 1)

\* C22: get_execution_history(name) returns, in execution order, exactly the
\* records of the workflows loaded under that name and no record of a
\* workflow of another name; without a name it returns all records.
HistoryFilteredByWorkflowName ==
    HistoryDone =>
        Val(ret.report) =
            IF call.workflow_name \in {None, Some(<<"">>)} THEN execution_history
            ELSE records_of(execution_history, Val(call.workflow_name), 1)

LoadStep == call.op = "load_workflow" /\ ~ret.done /\ ret'.done
CleanupStep == call.op = "cleanup_workflow" /\ ~ret.done /\ ret'.done

\* C29: a successful load_workflow returns an id that is not yet a key of
\* active_crews, so it adds one crew and replaces none, and a successful
\* cleanup removes one: the number of active crews is the number of
\* successful loads minus the number of successful cleanups; a failed load
\* stores nothing.
LoadedIdsAreFresh ==
    [][/\ LoadStep =>
            IF ret'.raised THEN active_crews' = active_crews
            ELSE /\ Val(ret'.report) \notin DOMAIN active_crews
                 /\ Cardinality(DOMAIN active_crews') = Cardinality(DOMAIN active_crews) + 1
       /\ CleanupStep =>
            Cardinality(DOMAIN active_crews') =
                Cardinality(DOMAIN active_crews) - (IF Val(ret'.report) THEN 1 ELSE 0)]_vars

\* ------------------------------------------------------------ the monitor
\* Calls of start_execution and end_execution in any order, on the ids the
\* manager builds and on one that was never started.
MonitorIds == {new_workflow_id(name, stamp) : name \in WorkflowNames, stamp \in Stamps} \cup {<<"nonexistent">>}

MonitorCall(c) ==
    /\ Len(monitor.performance_history) < MaxRuns
    /\ \/ /\ monitor.active_workflows < MaxStarts
          /\ \E workflow_id \in MonitorIds :
                c = [op |-> "start_execution", workflow_id |-> workflow_id]
       \/ \E workflow_id \in MonitorIds, success \in BOOLEAN, execution_time \in {3, 400} :
            c = [op |-> "end_execution", workflow_id |-> workflow_id,
                 success |-> success, execution_time |-> execution_time]

NextMonitorCall ==
    /\ ret.done
    /\ MonitorCall(call')
    /\ ret' = NotYet
    /\ UNCHANGED pipeline
    /\ UNCHANGED orchestrator

StartExecution ==
    /\ call.op = "start_execution" /\ ~ret.done
    /\ monitor' = start_execution(monitor, call.workflow_id)
    /\ ret' = Returned(<<>>)
    /\ UNCHANGED <<call, active_crews, execution_history>>
    /\ UNCHANGED pipeline

EndExecution ==
    /\ call.op = "end_execution" /\ ~ret.done
    /\ monitor' = end_execution(monitor, call.workflow_id, call.success, call.execution_time)
    /\ ret' = Returned(<<>>)
    /\ UNCHANGED <<call, active_crews, execution_history>>
    /\ UNCHANGED pipeline

MonitorInit ==
    /\ monitor \in {WorkflowMonitor(enable_prometheus) : enable_prometheus \in BOOLEAN}
    /\ MonitorCall(call)
    /\ ret = NotYet
    /\ active_crews = EmptyMap
    /\ execution_history = <<>>
    /\ output = NoOutput
    /\ custom_rules = <<>>
    /\ outputs = <<>>
    /\ workflow_result = NoWorkflowResult

MonitorNext ==
    \/ NextMonitorCall
    \/ StartExecution
    \/ EndExecution

SpecMonitor == MonitorInit /\ [][MonitorNext]_vars

\* ---------------------------------------------------- the monitor: properties
StartStep == call.op = "start_execution" /\ ~ret.done /\ ret'.done
EndStep == call.op = "end_execution" /\ ~ret.done /\ ret'.done

\* the record end_execution makes of this call
EndedRecord(record) ==
    /\ record.workflow_id = call.workflow_id
    /\ record.success = call.success
    /\ record.execution_time = call.execution_time

\* exactly one record was added to the metrics, under key, and to the history
RecordedUnder(key) ==
    /\ key \in DOMAIN monitor'.execution_metrics
    /\ monitor'.execution_metrics[key] = Append(list_at(monitor.execution_metrics, key), monitor'.execution_metrics[key][Len(monitor'.execution_metrics[key])])
    /\ EndedRecord(monitor'.execution_metrics[key][Len(monitor'.execution_metrics[key])])
    /\ \A other \in DOMAIN monitor.execution_metrics \ {key} :
            /\ other \in DOMAIN monitor'.execution_metrics
            /\ monitor'.execution_metrics[other] = monitor.execution_metrics[other]
    /\ DOMAIN monitor'.execution_metrics \subseteq DOMAIN monitor.execution_metrics \cup {key}
    /\ monitor'.performance_history = Append(monitor.performance_history, monitor'.execution_metrics[key][Len(monitor'.execution_metrics[key])])

GaugeCountsActiveExecutions ==
    monitor.enable_prometheus =>
        monitor.active_workflows = Cardinality(DOMAIN monitor.active_executions)
====
